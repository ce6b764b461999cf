------------------------------- MODULE Tripwire -------------------------------
(***************************************************************************)
(* The proxy's tripwire for retired shard-As: unlock records the shard-A it *)
(* gives up in retired_decoys, the proxy loads the table when it starts and  *)
(* reloads it on an interval.  (A request whose bearer token is in the        *)
(* loaded set is refused; when the sidecar cannot compute the digest, or the  *)
(* set is empty, it goes on to the rules.)                                   *)
(*   proxy/app.py: _lifespan, _refresh_decoy_hashes, _decoy_reload_loop;     *)
(*   storage/repository.py: record_retired_decoy, all_decoy_hashes.          *)
(***************************************************************************)
EXTENDS Naturals, FiniteSets

CONSTANTS
  Token,       \* shard-As
  MaxReboots,  \* bound on restarts of the proxy
  MaxTrips     \* bound on failing reads of the table

ASSUME TripwireAssumption == MaxReboots \in Nat /\ MaxTrips \in Nat

VARIABLES
  retired_decoys,  \* the table: digests of retired shard-As
  serving,         \* the proxy is up
  decoy_hashes,    \* app.state.decoy_hashes
  reading,         \* what fetch_decoy_hashes has read and not yet stored
  reboots, trips

tripwireVars == <<retired_decoys, serving, decoy_hashes, reading, reboots, trips>>

NotReading == [on |-> FALSE, got |-> {}]
TripwireTypeOK ==
  /\ retired_decoys \subseteq Token /\ decoy_hashes \subseteq Token /\ serving \in BOOLEAN
  /\ reading \in [on : BOOLEAN, got : SUBSET Token]
  /\ reboots \in 0..MaxReboots /\ trips \in 0..MaxTrips

TripwireInit ==
  /\ retired_decoys \in SUBSET Token /\ serving = FALSE /\ decoy_hashes = {}
  /\ reading = NotReading /\ reboots = 0 /\ trips = 0

\* unlock: record_retired_decoy commits one digest
RetireToken(t) ==
  /\ t \notin retired_decoys /\ retired_decoys' = retired_decoys \cup {t}
  /\ UNCHANGED <<serving, decoy_hashes, reading, reboots, trips>>

\* _lifespan: a table that cannot be read stops the start
ServeUp ==
  /\ ~serving /\ serving' = TRUE /\ decoy_hashes' = retired_decoys
  /\ UNCHANGED <<retired_decoys, reading, reboots, trips>>

ServeDown ==
  /\ serving /\ reboots < MaxReboots /\ reboots' = reboots + 1 /\ serving' = FALSE
  /\ decoy_hashes' = {} /\ reading' = NotReading
  /\ UNCHANGED <<retired_decoys, trips>>

\* _refresh_decoy_hashes: the read, and the assignment after the await
FetchDecoys ==
  /\ serving /\ ~reading.on /\ reading' = [on |-> TRUE, got |-> retired_decoys]
  /\ UNCHANGED <<retired_decoys, serving, decoy_hashes, reboots, trips>>

StoreDecoys ==
  /\ reading.on /\ decoy_hashes' = reading.got /\ reading' = NotReading
  /\ UNCHANGED <<retired_decoys, serving, reboots, trips>>

\* Mutant
FetchFailsBlank ==
  /\ reading.on /\ trips < MaxTrips /\ trips' = trips + 1 /\ decoy_hashes' = {}
  /\ reading' = NotReading /\ UNCHANGED <<retired_decoys, serving, reboots>>

\* An exception keeps the current set
FetchFails ==
  /\ reading.on /\ trips < MaxTrips /\ trips' = trips + 1 /\ reading' = NotReading
  /\ UNCHANGED <<retired_decoys, serving, decoy_hashes, reboots>>

TripwireNext ==
  \/ \E t \in Token : RetireToken(t)
  \/ ServeUp \/ ServeDown \/ FetchDecoys \/ StoreDecoys \/ FetchFails

\* The reload loop runs until the proxy stops and does not fail for ever; the service is
\* started again
TripwireFairness ==
  WF_tripwireVars(FetchDecoys) /\ WF_tripwireVars(ServeUp) /\ SF_tripwireVars(StoreDecoys)
TripwireSpec == TripwireInit /\ [][TripwireNext]_tripwireVars /\ TripwireFairness

\* A proxy that is up never takes a retired shard-A off its tripwire, whatever fails
\* (_refresh_decoy_hashes: "keeps the current set rather than blanking the tripwire").
NeverBlanked == [][serving /\ serving' => decoy_hashes \subseteq decoy_hashes']_tripwireVars

\* A shard-A that unlock retires ends up on the tripwire of the running proxy.
Trips == \A t \in Token : t \in retired_decoys ~> t \in decoy_hashes

\* Once armed for a shard-A the tripwire stays so, and for each it is armed in the end.
TripwireKept == NeverBlanked /\ Trips

=============================================================================
