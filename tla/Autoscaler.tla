----------------------------- MODULE Autoscaler ------------------------------
(***************************************************************************)
(* The trigger of fleet scaling (core/scheduler/autoscale.py): a check     *)
(* takes the average load of the HEALTHY nodes, publishes an event when it *)
(* is past a threshold and the last event of that direction is long enough *)
(* ago, and stamps the direction after it has published.  Checks of one    *)
(* process share the stamps and may overlap while they wait for Redis.     *)
(* Nothing in the repository but its tests starts a check.                 *)
(*                                                                         *)
(* Time is counted in units of which Cooldown make a COOLDOWN_PERIOD.  Of  *)
(* a stamp the model keeps its age, and no more of it than Cooldown.       *)
(***************************************************************************)
EXTENDS Integers, FiniteSets, Functions

CONSTANTS
  Machines,   \* the nodes of the fleet
  Loads,      \* what current_load can be, in percent
  Down,       \* a node that is not HEALTHY
  Checks,     \* checks that may be under way at the same time
  Cooldown

ASSUME LoadAssumption == Loads \subseteq 0..100 /\ Down \notin Loads
ASSUME CooldownAssumption == Cooldown \in Nat \ {0}

Directions == {"up", "down"}

VARIABLES
  load,       \* of each node
  stampAge,   \* of _last_scale_up and _last_scale_down; None is Cooldown
  check,      \* per check: off, or what it publishes and how far it is
  eventAge    \* of the last event of each check, in each direction

autoVars == <<load, stampAge, check, eventAge>>

Off == [at |-> "off", way |-> "up"]
CheckState == [at : {"off", "publish", "stamp"}, way : Directions]

AutoTypeOK ==
  /\ load \in [Machines -> Loads \cup {Down}]
  /\ stampAge \in [Directions -> 0..Cooldown]
  /\ check \in [Checks -> CheckState]
  /\ eventAge \in [Checks -> [Directions -> 0..Cooldown]]

-----------------------------------------------------------------------------
HealthyMachines == {m \in Machines : load[m] # Down}
TotalLoad == FoldFunctionOnSet(+, 0, load, HealthyMachines)

(* avg_load > 0.8 and avg_load < 0.2; without a healthy node it is 0.0. *)
Beyond(way) ==
  IF way = "up"
  THEN TotalLoad > 80 * Cardinality(HealthyMachines)
  ELSE HealthyMachines = {} \/ TotalLoad < 20 * Cardinality(HealthyMachines)

(* A variant: both directions ask _last_scale_up. *)
CooledDownUp(way) == stampAge["up"] = Cooldown

CooledDown(way) == stampAge[way] = Cooldown

(* A check that finds nothing to do, or is too early, changes nothing. *)
BeginCheck(c, way) ==
  /\ check[c].at = "off"
  /\ Beyond(way) /\ CooledDown(way)
  /\ check' = [check EXCEPT ![c] = [at |-> "publish", way |-> way]]
  /\ UNCHANGED <<load, stampAge, eventAge>>

Publish(c) ==
  /\ check[c].at = "publish"
  /\ check' = [check EXCEPT ![c].at = "stamp"]
  /\ eventAge' = [eventAge EXCEPT ![c][check[c].way] = 0]
  /\ UNCHANGED <<load, stampAge>>

(* emit_scale_event swallows what Redis does not take. *)
RedisFails(c) ==
  /\ check[c].at = "publish"
  /\ check' = [check EXCEPT ![c].at = "stamp"]
  /\ UNCHANGED <<load, stampAge, eventAge>>

(* The event was published or not: check_and_scale does not ask. *)
StampWay(c) ==
  /\ check[c].at = "stamp"
  /\ stampAge' = [stampAge EXCEPT ![check[c].way] = 0]
  /\ check' = [check EXCEPT ![c] = Off]
  /\ UNCHANGED <<load, eventAge>>

(* Heartbeats, sweeps and new nodes, as far as they matter here. *)
LoadChanges(m, l) ==
  /\ load' = [load EXCEPT ![m] = l]
  /\ UNCHANGED <<stampAge, check, eventAge>>

Older(age) == IF age < Cooldown THEN age + 1 ELSE age

TimePasses ==
  /\ stampAge' = [way \in Directions |-> Older(stampAge[way])]
  /\ eventAge' = [c \in Checks |-> [way \in Directions |-> Older(eventAge[c][way])]]
  /\ UNCHANGED <<load, check>>

AutoInit ==
  /\ load = [m \in Machines |-> Down]
  /\ stampAge = [way \in Directions |-> Cooldown]
  /\ check = [c \in Checks |-> Off]
  /\ eventAge = [c \in Checks |-> [way \in Directions |-> Cooldown]]

(* A new process knows of no event; those before it are not its own. *)
RestartScaler ==
  /\ stampAge' = [way \in Directions |-> Cooldown]
  /\ check' = [c \in Checks |-> Off]
  /\ eventAge' = [c \in Checks |-> [way \in Directions |-> Cooldown]]
  /\ UNCHANGED load

AutoNext ==
  \/ \E c \in Checks : (\E way \in Directions : BeginCheck(c, way))
                       \/ Publish(c) \/ RedisFails(c) \/ StampWay(c)
  \/ \E m \in Machines, l \in Loads \cup {Down} : LoadChanges(m, l)
  \/ TimePasses \/ RestartScaler

AutoSpec == AutoInit /\ [][AutoNext]_autoVars
-----------------------------------------------------------------------------
(* check_and_scale respects the cooldown as far as its await allows: when an
   event is about to be published, a Cooldown has passed since the same check
   published one of that direction, whatever the stamps of others, the load
   and lost events did in between.  So a process never has more events of a
   direction within a cooldown than checks that overlap. *)
EventsApart == \A c \in Checks :
  check[c].at = "publish" => eventAge[c][check[c].way] = Cooldown
=============================================================================
