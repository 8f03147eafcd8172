------------------------- MODULE ExactlyOnceLedger -------------------------
(***************************************************************************)
(* What a data group promises its producers: each partition is an          *)
(* append-only ledger, a request enters it whole and side by side or not   *)
(* at all, and once a session has closed a sequence number nothing at or   *)
(* below that number ever enters again.  Receipts, windows, batches and    *)
(* crashes do not show here.                                               *)
(***************************************************************************)
EXTENDS Integers, Sequences

CONSTANTS Partitions, Sessions, Requests

VARIABLES
    ledger,     \* ledger[p]: the records of p, each with its request identity
    closed      \* closed[<<p, s>>]: highest sequence decided, -1 when none

IdOf(r) == [partition |-> r.partition, session |-> r.session, sequence |-> r.sequence]

(* Request r lies whole and contiguous in ledger l.                        *)
Carries(l, r) ==
    \E first \in DOMAIN l :
        /\ {i \in DOMAIN l : l[i].request = IdOf(r)} = first .. first + Len(r.records) - 1
        /\ \A k \in DOMAIN r.records : l[first + k - 1].payload = r.records[k]

IsPrefixOf(s, t) ==
    /\ Len(s) <= Len(t)
    /\ \A i \in DOMAIN s : s[i] = t[i]

Init ==
    /\ ledger = [p \in Partitions |-> <<>>]
    /\ closed = [ps \in Partitions \X Sessions |-> -1]

Append_ ==
    /\ \A p \in Partitions : IsPrefixOf(ledger[p], ledger'[p])
    /\ \A ps \in Partitions \X Sessions : closed[ps] <= closed'[ps]
    /\ \A p \in Partitions : \A i \in Len(ledger[p]) + 1 .. Len(ledger'[p]) :
          LET id == ledger'[p][i].request
              ps == <<id.partition, id.session>>
          IN  /\ id.partition = p
              /\ closed[ps] < id.sequence
              /\ id.sequence <= closed'[ps]
              /\ \E r \in Requests : IdOf(r) = id /\ Carries(ledger'[p], r)

Spec == Init /\ [][Append_]_<<ledger, closed>>
=============================================================================
