-------------------------------- MODULE MCTables -------------------------------
(***************************************************************************)
(* The two groups of tables that only the desk's services keep, each       *)
(* checked by itself in one run: the algorithms with their bindings, and   *)
(* the boards with the model versions.  A behaviour is one of one group,   *)
(* chosen at the start; the other stays as it begins.                      *)
(***************************************************************************)
EXTENDS MCAlgorithmRegistry, TLC

CONSTANTS
  Devices, Scenes, Models, Factory, Threads, Telemetry, MaxCommands   \* EdgeFleet

VARIABLES
  group,
  boards, recorded, board, ran, sent, thread, batch, pushed, commands

Fleet == INSTANCE EdgeFleet WITH
  rows <- boards, SceneOf <- [m \in Models |-> CHOOSE s \in Scenes : TRUE]

ASSUME TablesAssumption == Fleet!FleetConstants

fleet == <<boards, recorded, board, ran, sent, thread, batch, pushed, commands>>

(* Boards are alike, and so are the threads of commands.                   *)
Symmetry == Permutations(Devices) \union Permutations(Threads)

MCInit == group \in {"algorithms", "boards"} /\ Init /\ Fleet!Init
MCNext ==
  /\ UNCHANGED group
  /\ \/ group = "algorithms" /\ Next /\ UNCHANGED fleet
     \/ group = "boards" /\ Fleet!Next /\ UNCHANGED vars
MCSpec == MCInit /\ [][MCNext]_<<group, vars, fleet>>
BoardsSpec == MCSpec /\ group = "boards"

-----------------------------------------------------------------------------
(* EdgeFleet: a board that was removed stays removed, whatever commands,   *)
(* heartbeats and pushes of it were under way.                             *)
GoneStaysGone == [][Fleet!AppearsBlank]_fleet

(* EdgeFleet: whatever the desk says of a model on a board, in the board's *)
(* row, in the version's list or as the answer of a batch, has been so.    *)
LabelsWereTrue == Fleet!LabelsWereTrue

(* EdgeFleet: a push answered with success is in the version's list        *)
(* (model_version_repository.py:116).                                      *)
DeploymentsAreRecorded == Fleet!DeploymentsAreRecorded
=============================================================================
