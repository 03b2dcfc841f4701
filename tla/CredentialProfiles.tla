------------------------- MODULE CredentialProfiles -------------------------
(***************************************************************************)
(* How main finds the credentials of a target that a workload of the       *)
(* cluster uses: KafkaCredentialProfileCache and resolveExternalCredentials *)
(* (src/main/kafka/external-credentials.ts), the concurrent scan and its   *)
(* memoized reads (src/main/kafka/workload-environment.ts), and how the    *)
(* profile, or that of a Strimzi listener (src/main/kafka/credentials.ts), *)
(* is joined with the security the user has set (applySecurityOverride,    *)
(* called by connectForRequest in src/main/ipc.ts).                        *)
(*                                                                         *)
(* One profile key.  A workload has one container, whose ConfigMap says    *)
(* whether it uses the bootstrap and whose environment consists of literal *)
(* variables and of those of a Secret.  A variable is one of the pieces    *)
(* of security that parseWorkloadSecurityEnvironment looks for.            *)
(***************************************************************************)
EXTENDS FiniteSets, Naturals, Sequences

CONSTANTS
  Asker,      \* requests that need the profile
  Container,  \* what the scanned workloads may be like
  Override,   \* what users may have set
  Workloads,  \* the number of workloads
  Visitors,   \* how many are visited at a time: 6 in the code
  MaxScans    \* bounds how often the profile is read

ASSUME CredentialAssumption ==
  /\ {Workloads, Visitors, MaxScans} \subseteq Nat
  /\ \A c \in Container : /\ c.config \in BOOLEAN
                          /\ c.secret \subseteq STRING /\ c.literal \subseteq STRING
  /\ \A o \in Override : o.auth \in {"auto", "none", "scram", "plain", "iam"}

VARIABLES
  workload,  \* workload[i]: the i-th workload that the Kubernetes API lists
  kubeScan,  \* kubeScan[n]: the n-th call of resolveExternalCredentials
  profile,   \* the scan whose promise `profiles` has, or 0
  dropped,   \* how many scans had begun when the profile was last deleted
  asker      \* asker[a]: the request's place, the scan it awaits, and what it applies

credentialVars == <<workload, kubeScan, profile, dropped, asker>>

Index == 1..Workloads
Worker == 1..(IF Visitors < Workloads THEN Visitors ELSE Workloads)

-----------------------------------------------------------------------------
(* Parsing and joining; ssl is {} for undefined, else has "on".            *)

None == "none"
UnknownProfile ==
  [detected |-> FALSE, ssl |-> {}, sasl |-> None, region |-> FALSE, tls |-> FALSE, auth |-> None]

Mechanism(env) ==
  CASE "scram" \in env -> "scram"
    [] "iam" \in env -> "iam"
    [] "apikey" \in env -> "plain"
    [] OTHER -> None

(* parseWorkloadSecurityEnvironment() *)
Parsed(env) ==
  LET mtls == {"cert", "key"} \subseteq env
      tls == mtls \/ env \cap {"protocol", "ca"} # {}
      named == env \cap {"password", "apikey"} # {}
  IN [detected |-> env \ {"region"} # {},
      ssl |-> IF ~tls THEN {}
              ELSE {"on"} \cup (env \cap {"ca"}) \cup (IF mtls THEN {"cert"} ELSE {}),
      sasl |-> IF Mechanism(env) \in {"scram", "plain"} /\ named THEN Mechanism(env) ELSE None,
      region |-> "region" \in env,
      tls |-> tls,
      auth |-> IF mtls THEN "mtls" ELSE Mechanism(env)]

(* strength() *)
Strength(p) ==
  CASE p.auth = "mtls" -> 4
    [] p.sasl # None -> 3
    [] p.ssl # {} -> 2
    [] OTHER -> IF p.detected THEN 1 ELSE 0

(* What both kinds of targets give to applySecurityOverride(): a workload's profile... *)
OfWorkload(p, tls) ==
  [ssl |-> p.ssl, sasl |-> p.sasl, region |-> p.region, fallback |-> tls,
   auth |-> IF p.detected THEN p.auth ELSE None]

(* ...or resolveStrimziCredentials(): the cluster CA, and the certificate or password of a user. *)
OfStrimzi(tls, user) ==
  LET ca == IF tls THEN {"on", "ca"} ELSE {} IN
  [ssl |-> IF user = "cert" THEN ca \cup {"on", "cert"} ELSE ca,
   sasl |-> IF user = "password" THEN "scram" ELSE None, region |-> FALSE, fallback |-> tls,
   auth |-> CASE user = "cert" -> "mtls" [] user = "password" -> "scram" [] OTHER -> None]

(* An override with authMode and tlsMode, and whether all it needs is filled in; without one the
   effect is that of "auto" twice. *)
Explicit(o) == o.auth # "auto"
Iam(found, o) == o.auth = "iam" \/ (~Explicit(o) /\ found.auth = "iam")

Refuses(found, o) ==
  \/ o.auth \in {"scram", "plain", "iam"} /\ ~o.complete
  \/ o.auth = "auto" /\ found.auth = "iam" /\ ~found.region
  \/ Iam(found, o) /\ o.tls = "disabled"

Encrypted(found) == IF found.ssl = {} THEN {"on"} ELSE found.ssl

Ssl(found, o) ==
  CASE o.tls = "disabled" -> {}
    [] o.tls = "enabled" -> Encrypted(found)
    [] OTHER -> IF found.ssl = {} /\ found.fallback THEN {"on"} ELSE found.ssl

(* The client certificate goes when the user chose another authentication than the detected mTLS. *)
Stripped(found, o) ==
  IF Explicit(o) /\ found.auth = "mtls" THEN Ssl(found, o) \ {"cert"} ELSE Ssl(found, o)

Auth(found, o) == IF Explicit(o) THEN o.auth ELSE found.auth
Corrected(auth, ssl) == IF ssl = {} /\ auth = "mtls" THEN None ELSE auth

(* applySecurityOverride() that does not throw *)
Applied(found, o) ==
  LET ssl == IF Iam(found, o) THEN Encrypted(found) ELSE Stripped(found, o) IN
  [ssl |-> ssl,
   sasl |-> IF Iam(found, o) THEN "iam" ELSE IF Explicit(o) THEN o.auth ELSE found.sasl,
   auth |-> Corrected(Auth(found, o), ssl)]

-----------------------------------------------------------------------------
Scan == DOMAIN kubeScan

ReadState == {"none", "asked", "had", "lost"}
Place == {"idle", "waits", "has", "refused", "failed"}

CredentialTypeOK ==
  /\ workload \in [Index -> Container]
  /\ Len(kubeScan) <= MaxScans /\ profile \in {0} \cup Scan /\ dropped \in 0..Len(kubeScan)
  /\ \A n \in Scan :
       /\ kubeScan[n].phase \in {"lists", "visits", "done", "failed"}
       /\ kubeScan[n].next \in 1..(Workloads + 1) /\ kubeScan[n].completed \in 0..Workloads
       /\ kubeScan[n].read \in [{"config", "secret"} -> [Index -> ReadState]]
       /\ \A v \in Worker : kubeScan[n].at[v] \in Index \cup {0}
  /\ \A a \in Asker : asker[a].at \in Place /\ asker[a].scan \in {0} \cup Scan

NoResult == [ssl |-> {}, sasl |-> None, auth |-> None]

CredentialInit ==
  /\ workload \in [Index -> Container]
  /\ kubeScan = <<>> /\ profile = 0 /\ dropped = 0
  /\ asker = [a \in Asker |-> [at |-> "idle", scan |-> 0, override |-> None, result |-> NoResult]]

-----------------------------------------------------------------------------
NewScan ==
  [phase |-> "lists", next |-> 1, at |-> [v \in Worker |-> 0], completed |-> 0,
   best |-> UnknownProfile, read |-> [s \in {"config", "secret"} |-> [i \in Index |-> "none"]]]

Waits(a, n) == asker' = [asker EXCEPT ![a] = [@ EXCEPT !.at = "waits", !.scan = n]]

(* getOrResolve() *)
JoinsScan(a) ==
  /\ asker[a].at = "idle" /\ profile # 0
  /\ Waits(a, profile) /\ UNCHANGED <<workload, kubeScan, profile, dropped>>

ResolvesProfile(a) ==
  /\ asker[a].at = "idle" /\ profile = 0 /\ Len(kubeScan) < MaxScans
  /\ kubeScan' = Append(kubeScan, NewScan) /\ profile' = Len(kubeScan) + 1
  /\ Waits(a, Len(kubeScan) + 1) /\ UNCHANGED <<workload, dropped>>

(* delete() and clear() *)
Drops ==
  /\ profile # 0 /\ profile' = 0 /\ dropped' = Len(kubeScan)
  /\ UNCHANGED <<workload, kubeScan, asker>>

(* The catch of getOrResolve(): listWorkloads() has failed. *)
Removed(n) == 0

ListFails(n) ==
  /\ kubeScan[n].phase = "lists"
  /\ kubeScan' = [kubeScan EXCEPT ![n].phase = "failed"] /\ profile' = Removed(n)
  /\ asker' = [a \in Asker |->
       IF asker[a].at = "waits" /\ asker[a].scan = n
       THEN [asker[a] EXCEPT !.at = "failed"] ELSE asker[a]]
  /\ UNCHANGED <<workload, dropped>>

-----------------------------------------------------------------------------
(* forEachConcurrent(): a worker asks for the ConfigMap of the workload it takes. *)
Taken(s, v, i) ==
  IF i > Workloads THEN [s EXCEPT !.at[v] = 0]
  ELSE [s EXCEPT !.at[v] = i, !.next = i + 1, !.read["config"][i] = "asked"]

StartsScan(s) ==
  [s EXCEPT !.phase = IF Workloads = 0 THEN "done" ELSE "visits", !.at = [v \in Worker |-> v],
            !.next = Cardinality(Worker) + 1,
            !.read["config"] = [i \in Index |-> IF i \in Worker THEN "asked" ELSE "none"]]

(* listWorkloads() answers. *)
ListsWorkloads(n) ==
  /\ kubeScan[n].phase = "lists"
  /\ kubeScan' = [kubeScan EXCEPT ![n] = StartsScan(kubeScan[n])]
  /\ UNCHANGED <<workload, profile, dropped, asker>>

(* A ConfigMap or a Secret is read, or its read fails, which the resolver takes as its absence. *)
ReadsSecret(n, kind, i) ==
  /\ kubeScan[n].read[kind][i] = "asked"
  /\ \E how \in {"had", "lost"} : kubeScan' = [kubeScan EXCEPT ![n].read[kind][i] = how]
  /\ UNCHANGED <<workload, profile, dropped, asker>>

Environment(s, i) ==
  workload[i].literal \cup (IF s.read["secret"][i] = "had" THEN workload[i].secret ELSE {})

LastWins(s, p) == p
Strongest(s, p) == IF Strength(p) > Strength(s.best) THEN p ELSE s.best

(* The visit of a workload ends: its worker takes the next one; the scan ends with the last. *)
ScanLeft(s, v) ==
  LET t == Taken([s EXCEPT !.completed = @ + 1], v, s.next) IN
  [t EXCEPT !.phase = IF \A w \in Worker : t.at[w] = 0 THEN "done" ELSE @]

(* The container uses the bootstrap: its whole environment is read. *)
Matches(s, i) == workload[i].config /\ s.read["config"][i] = "had"

Visits(n, v) ==
  LET s == kubeScan[n]
      i == s.at[v]
  IN
  /\ s.phase = "visits" /\ i # 0
  /\ UNCHANGED <<workload, profile, dropped, asker>>
  /\ \/ /\ s.read["config"][i] \in {"had", "lost"} /\ ~Matches(s, i)
        /\ kubeScan' = [kubeScan EXCEPT ![n] = ScanLeft(s, v)]
     \/ /\ Matches(s, i) /\ s.read["secret"][i] = "none"
        /\ kubeScan' = [kubeScan EXCEPT ![n].read["secret"][i] = "asked"]
     \/ /\ Matches(s, i) /\ s.read["secret"][i] \in {"had", "lost"}
        /\ LET best == Strongest(s, Parsed(Environment(s, i))) IN
           kubeScan' = [kubeScan EXCEPT ![n] = ScanLeft([s EXCEPT !.best = best], v)]

(* connectForRequest() has the profile and applies what the user set. *)
Applies(a) ==
  /\ asker[a].at = "waits" /\ kubeScan[asker[a].scan].phase = "done"
  /\ UNCHANGED <<workload, kubeScan, profile, dropped>>
  /\ \E o \in Override, tls \in BOOLEAN :
       LET found == OfWorkload(kubeScan[asker[a].scan].best, tls) IN
       asker' = [asker EXCEPT ![a] =
         IF Refuses(found, o) THEN [@ EXCEPT !.at = "refused", !.override = o]
         ELSE [@ EXCEPT !.at = "has", !.override = o, !.result = Applied(found, o)]]

(* connectForRequest() of a Strimzi cluster, whose Secrets are read for each request. *)
AppliesStrimzi(a) ==
  /\ asker[a].at = "idle"
  /\ UNCHANGED <<workload, kubeScan, profile, dropped>>
  /\ \E o \in Override, tls \in BOOLEAN, user \in {"cert", "password", None} :
       LET found == OfStrimzi(tls, user) IN
       asker' = [asker EXCEPT ![a] =
         IF Refuses(found, o) THEN [@ EXCEPT !.at = "refused", !.override = o]
         ELSE [@ EXCEPT !.at = "has", !.override = o, !.result = Applied(found, o)]]

CredentialNext ==
  \/ Drops
  \/ \E a \in Asker : JoinsScan(a) \/ ResolvesProfile(a) \/ Applies(a) \/ AppliesStrimzi(a)
  \/ \E n \in Scan : \/ ListsWorkloads(n) \/ ListFails(n)
                     \/ \E kind \in {"config", "secret"}, i \in Index : ReadsSecret(n, kind, i)
                     \/ \E v \in Worker : Visits(n, v)

CredentialSpec == CredentialInit /\ [][CredentialNext]_credentialVars

-----------------------------------------------------------------------------
(* Properties.                                                             *)

(* In whatever order the workers finish, the scan visits every workload once and ends with the
   strongest profile of those it could read. *)
StrongestFound ==
  \A n \in Scan : kubeScan[n].phase = "done" =>
    /\ kubeScan[n].completed = Workloads
    /\ \A i \in Index : Matches(kubeScan[n], i) =>
         Strength(kubeScan[n].best) >= Strength(Parsed(Environment(kubeScan[n], i)))

(* The cache answers neither with a scan that failed nor with one begun before its key was
   deleted. *)
ProfileIsSound == profile # 0 => profile > dropped /\ kubeScan[profile].phase # "failed"

(* What a connection is made with: AWS IAM only over TLS, mTLS only with a certificate, and the
   authentication the user chose rather than the one found. *)
AppliedIsSound ==
  \A a \in Asker : asker[a].at = "has" =>
    LET r == asker[a].result
        o == asker[a].override
    IN /\ r.sasl = "iam" => r.ssl # {}
       /\ r.auth = "mtls" => "cert" \in r.ssl
       /\ Explicit(o) => r.sasl = o.auth /\ r.auth = o.auth

(* All three: from the scan through the cache to the connection, the credentials are the strongest
   that could be read, of now, and in a combination that Kafka takes. *)
CredentialsAreSound == StrongestFound /\ ProfileIsSound /\ AppliedIsSound

=============================================================================
