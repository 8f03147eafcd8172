------------------------------ MODULE PublicApi ------------------------------
(***************************************************************************)
(* The public calls of a node (service.rs) and what each asks for: the     *)
(* permission and the scope its handler gives to admit, whether the        *)
(* request carries a principal of its own that must be the authenticated   *)
(* one, and how ClusterManager (runtime.rs) carries it out.                *)
(*                                                                         *)
(* Wire conversions are left out: a handler is its admission, one          *)
(* operation and its answer.                                               *)
(***************************************************************************)
EXTENDS TLC

(* scope: of a grant or of a request.  claims: "none", the principal of    *)
(* the "request" id, or that of the lease, "owner", known once it is read. *)
Asks(permission, scope, claims) ==
    [permission |-> permission, scope |-> scope, claims |-> claims]

NodeRpcs ==
    [Health       |-> Asks("ClusterObserve", "cluster", "none"),
     Capabilities |-> Asks("ClusterObserve", "cluster", "none"),
     Bootstrap    |-> Asks("ClusterBootstrap", "cluster", "none")]

(* A stream given by name is found first and authorized again.             *)
StreamRpcs ==
    [CreateStream   |-> Asks("StreamCreate", "all", "none"),
     DescribeByName |-> Asks("StreamDiscover", "all", "none"),
     DescribeStream |-> Asks("StreamDescribe", "stream", "none"),
     ListStreams    |-> Asks("StreamDescribe", "all", "none"),
     DeleteStream   |-> Asks("StreamDelete", "stream", "none")]

DataRpcs ==
    [ResolveByName |-> Asks("StreamDiscover", "all", "none"),
     ResolveRoute  |-> Asks("RouteResolve", "stream", "none"),
     Publish       |-> Asks("Publish", "stream", "request"),
     CommitPublish |-> Asks("Publish", "stream", "request"),
     Fetch         |-> Asks("Fetch", "stream", "none")]

BookmarkRpcs ==
    [GetReceipt      |-> Asks("ReceiptRead", "stream", "request"),
     CreateBookmark  |-> Asks("BookmarkManage", "stream", "none"),
     ResolveBookmark |-> Asks("BookmarkRead", "stream", "none"),
     DeleteBookmark  |-> Asks("BookmarkManage", "stream", "none"),
     ListBookmarks   |-> Asks("BookmarkRead", "stream", "none")]

StreamBookmarkRpcs ==
    [CreateStreamBookmark  |-> Asks("BookmarkManage", "stream", "none"),
     ResolveStreamBookmark |-> Asks("BookmarkRead", "stream", "none"),
     DeleteStreamBookmark  |-> Asks("BookmarkManage", "stream", "none"),
     ListStreamBookmarks   |-> Asks("BookmarkRead", "stream", "none")]

RetentionRpcs ==
    [AdvanceRetention   |-> Asks("RetentionManage", "stream", "request"),
     GetRetentionStatus |-> Asks("RetentionRead", "stream", "none"),
     BeginExport        |-> Asks("ClusterAdmin", "cluster", "request")]

DownloadRpcs ==
    [GetExportStatus |-> Asks("ClusterObserve", "cluster", "none"),
     DownloadExport  |-> Asks("ClusterObserve", "cluster", "none")]

EndExportRpcs ==
    [CompleteExport |-> Asks("ClusterAdmin", "cluster", "request"),
     AbortExport    |-> Asks("ClusterAdmin", "cluster", "request")]

ReplayRpcs ==
    [AdmitReplayLease   |-> Asks("ReplayManage", "stream", "request"),
     RenewReplayLease   |-> Asks("ReplayManage", "stream", "request"),
     ReleaseReplayLease |-> Asks("ReplayManage", "stream", "request"),
     GetReplayLease     |-> Asks("ReplayRead", "stream", "owner")]

ConsumerRpcs ==
    [FetchProtected          |-> Asks("ReplayRead", "stream", "owner"),
     GetCheckpoint           |-> Asks("CheckpointRead", "stream", "none"),
     CompareAndSetCheckpoint |-> Asks("CheckpointManage", "stream", "request")]

SecurityRpcs ==
    [GetSecurityPolicy        |-> Asks("SecurityObserve", "cluster", "none"),
     ApplySecurityMutation    |-> Asks("SecurityAdmin", "cluster", "request"),
     ActivateSecuredTransport |-> Asks("SecurityAdmin", "cluster", "request")]

OperatorRpcs ==
    [Diagnostics   |-> Asks("ClusterObserve", "cluster", "none"),
     SnapshotGroup |-> Asks("SnapshotManage", "cluster", "none")]

AdministrationRpcs ==
    [ReplaceVoter        |-> Asks("ClusterAdmin", "cluster", "none"),
     TransferLeadership  |-> Asks("ClusterAdmin", "cluster", "none"),
     GetAdministration   |-> Asks("ClusterAdmin", "cluster", "none"),
     AbortAdministration |-> Asks("ClusterAdmin", "cluster", "none")]

PublicRpcs ==
    NodeRpcs @@ StreamRpcs @@ DataRpcs @@ BookmarkRpcs @@ StreamBookmarkRpcs @@ RetentionRpcs
    @@ DownloadRpcs @@ EndExportRpcs @@ ReplayRpcs @@ ConsumerRpcs @@ SecurityRpcs
    @@ OperatorRpcs @@ AdministrationRpcs

-----------------------------------------------------------------------------
(* How the node carries a call out.  "local": from its own state, whoever  *)
(* leads.  "read": after a proof of leadership.  "lookup": such a read,    *)
(* then a second authorization.  "write": with a mutation permit, which    *)
(* the calls that first advance retention take too.  "export": a proposal  *)
(* of the export coordinator, without a permit.  "policy", "security": the *)
(* two that also renew the node's policy lease.                            *)
NodeOperations == [Health |-> "local", Capabilities |-> "local", Bootstrap |-> "write"]

StreamOperations ==
    [CreateStream |-> "write", DescribeByName |-> "lookup", DescribeStream |-> "read",
     ListStreams |-> "read", DeleteStream |-> "write", ResolveByName |-> "lookup",
     ResolveRoute |-> "read"]

(* The first Publish is answered without touching the cluster.             *)
RecordOperations ==
    [Publish |-> "local", CommitPublish |-> "write", Fetch |-> "read", GetReceipt |-> "read",
     GetCheckpoint |-> "read"]

BookmarkOperations ==
    [CreateBookmark |-> "write", DeleteBookmark |-> "write", ResolveBookmark |-> "read",
     ListBookmarks |-> "read"]

RetentionOperations == [AdvanceRetention |-> "write", GetRetentionStatus |-> "write"]

ReplayOperations ==
    [AdmitReplayLease |-> "write", RenewReplayLease |-> "write",
     ReleaseReplayLease |-> "write", GetReplayLease |-> "write"]

ProtectedOperations == [FetchProtected |-> "write"]

CheckpointOperations == [CompareAndSetCheckpoint |-> "write"]

StreamBookmarkOperations ==
    [CreateStreamBookmark |-> "write", DeleteStreamBookmark |-> "write",
     ResolveStreamBookmark |-> "read", ListStreamBookmarks |-> "read"]

ExportOperations ==
    [BeginExport |-> "export", GetExportStatus |-> "read", DownloadExport |-> "read",
     CompleteExport |-> "export", AbortExport |-> "export"]

SecurityOperations ==
    [GetSecurityPolicy |-> "policy", ApplySecurityMutation |-> "security",
     ActivateSecuredTransport |-> "write"]

OperatorOperations ==
    [Diagnostics |-> "local", SnapshotGroup |-> "write", ReplaceVoter |-> "write",
     TransferLeadership |-> "write", GetAdministration |-> "read",
     AbortAdministration |-> "write"]

Operations ==
    NodeOperations @@ StreamOperations @@ RecordOperations @@ BookmarkOperations
    @@ RetentionOperations @@ ReplayOperations @@ ProtectedOperations
    @@ CheckpointOperations @@ StreamBookmarkOperations @@ ExportOperations
    @@ SecurityOperations @@ OperatorOperations

(* The permission the second authorization of a lookup asks for.           *)
AfterLookup == [DescribeByName |-> "StreamDescribe", ResolveByName |-> "RouteResolve"]

ASSUME EveryRpcHasItsOperation ==
    /\ DOMAIN PublicRpcs = DOMAIN Operations
    /\ \A rpc \in DOMAIN Operations :
        Operations[rpc] \in {"local", "read", "lookup", "write", "export", "policy", "security"}
=============================================================================
