------------------------------ MODULE MCServing ------------------------------
(***************************************************************************)
(* An instance of Serving for TLC: an operator "root" and an application   *)
(* "app", two tasks at a time, one public call of each way in which calls  *)
(* are carried out, and two policy mutations that compete for a revision:  *)
(* one revokes app's token, the other lets it administer the policy.       *)
(***************************************************************************)
EXTENDS Serving

Symmetry == Permutations(Tasks)

MCOwn == [node |-> 1, generation |-> 1]
MCPeer == [node |-> 2, generation |-> 1]

AppGrants == {Grant("Publish", "all"), Grant("Fetch", "all"), Grant("StreamDiscover", "all"),
              Grant("RouteResolve", "s")}

MCBootstrap ==
    [revision |-> 1,
     grants |-> [root |-> {Grant("ClusterObserve", "cluster"), Grant("ClusterAdmin", "cluster"),
                           Grant("SecurityObserve", "cluster"), Grant("SecurityAdmin", "cluster")},
                 app  |-> AppGrants],
     tokens |-> {Token("r", 1, "root"), Token("a", 1, "app")},
     certificates |-> {Certificate(1, 1), Certificate(2, 1)}]

MCMutations ==
    [revokeApp  |-> [expected |-> 1, change |-> [kind |-> "RevokeTokenGeneration",
                                                 token |-> Token("a", 1, "app")]],
     promoteApp |-> [expected |-> 1, change |-> [kind |-> "ReplacePrincipalGrants",
                        principal |-> "app",
                        grants |-> AppGrants \cup {Grant("SecurityAdmin", "cluster")}]]]

MCCredentials == {[id |-> "r", generation |-> 1], [id |-> "a", generation |-> 1]}
=============================================================================
