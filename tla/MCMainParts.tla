----------------------------- MODULE MCMainParts -----------------------------
(* Small instances of the parts of main side by side: a behaviour is one of one part, chosen  *)
(* at the start, beside which the others rest in an initial state of theirs.                  *)
EXTENDS ProgressStream, GroupScan, RequestLife, BrokerConnection, CredentialProfiles,
        GroupOffsetBatch, MessageFetch, TopicSizes, MCClusterHealth

VARIABLE part  \* the part the behaviour is of

mainVars == <<part, progressVars, scanVars, requestVars, connectionVars, credentialVars, batchVars,
              fetchVars, sizesVars, healthVars>>

(* Workloads with all of a client certificate, with a region beside their own IAM, and without
   a bootstrap. *)
MCContainer ==
  {[config |-> TRUE, secret |-> {"cert", "key", "password"}, literal |-> {"scram"}],
   [config |-> TRUE, secret |-> {"region"}, literal |-> {"iam", "ca"}],
   [config |-> FALSE, secret |-> {}, literal |-> {}]}

MCOverride ==
  {[auth |-> "auto", tls |-> "disabled", complete |-> TRUE],
   [auth |-> "iam", tls |-> "auto", complete |-> TRUE],
   [auth |-> "scram", tls |-> "auto", complete |-> FALSE]}

Rests(p, state) == part = p \/ state

MainInit ==
  /\ part \in {"progress", "scan", "request", "connection", "credentials", "batch", "fetch",
               "sizes", "health"}
  /\ ProgressInit /\ ScanInit /\ RequestInit
  /\ ConnectionInit /\ Rests("connection", direct)
  /\ CredentialInit /\ Rests("credentials", \A i, j \in Index : workload[i] = workload[j]
                                              /\ workload[i] = CHOOSE c \in Container : TRUE)
  /\ BatchInit /\ Rests("batch", where = [g \in Scanned |-> CHOOSE b \in Broker : TRUE])
  /\ FetchInit /\ Rests("fetch", log = [offset \in Offset |-> "none"])
  /\ SizesInit /\ Rests("sizes", leader = [t \in Topic |-> NoLeader])
  /\ HealthInit /\ Rests("health", committed = [g \in Consumer |-> {}])

MainNext ==
  \/ /\ part = "progress" /\ ProgressNext
     /\ UNCHANGED <<part, scanVars, requestVars, connectionVars, credentialVars, batchVars,
                    fetchVars, sizesVars, healthVars>>
  \/ /\ part = "scan" /\ ScanNext
     /\ UNCHANGED <<part, progressVars, requestVars, connectionVars, credentialVars, batchVars,
                    fetchVars, sizesVars, healthVars>>
  \/ /\ part = "request" /\ RequestNext
     /\ UNCHANGED <<part, progressVars, scanVars, connectionVars, credentialVars, batchVars,
                    fetchVars, sizesVars, healthVars>>
  \/ /\ part = "connection" /\ ConnectionNext
     /\ UNCHANGED <<part, progressVars, scanVars, requestVars, credentialVars, batchVars,
                    fetchVars, sizesVars, healthVars>>
  \/ /\ part = "credentials" /\ CredentialNext
     /\ UNCHANGED <<part, progressVars, scanVars, requestVars, connectionVars, batchVars,
                    fetchVars, sizesVars, healthVars>>
  \/ /\ part = "batch" /\ BatchNext
     /\ UNCHANGED <<part, progressVars, scanVars, requestVars, connectionVars, credentialVars,
                    fetchVars, sizesVars, healthVars>>
  \/ /\ part = "fetch" /\ FetchNext
     /\ UNCHANGED <<part, progressVars, scanVars, requestVars, connectionVars, credentialVars,
                    batchVars, sizesVars, healthVars>>
  \/ /\ part = "sizes" /\ SizesNext
     /\ UNCHANGED <<part, progressVars, scanVars, requestVars, connectionVars, credentialVars,
                    batchVars, fetchVars, healthVars>>
  \/ /\ part = "health" /\ HealthNext
     /\ UNCHANGED <<part, progressVars, scanVars, requestVars, connectionVars, credentialVars,
                    batchVars, fetchVars, sizesVars>>

MainSpec == MainInit /\ [][MainNext]_mainVars

MainTypeOK ==
  /\ ProgressTypeOK /\ ScanTypeOK /\ RequestTypeOK /\ ConnectionTypeOK /\ CredentialTypeOK
  /\ BatchTypeOK /\ FetchTypeOK /\ SizesTypeOK /\ HealthTypeOK

(* The totals that pages show are exact or marked: the sizes of topics and the lag of groups. *)
TotalsAreBounds == OldTargetsForgiven /\ LagIsMinimum

=============================================================================
