------------------------------ MODULE MCStorage ------------------------------
(***************************************************************************)
(* The three stores of the program side by side.  They share no state: the *)
(* ledger, the state directory of the legacy commands, and the LaunchAgent *)
(* with its markers.  So a behaviour works with one of them, the others    *)
(* stay as they were at the start, and no interleaving is lost.            *)
(***************************************************************************)
EXTENDS Ledger, Bundle, ServiceControl, TLC

VARIABLE part

storageVars == <<part, vars, bundleVars, serviceVars>>

StorageInit ==
    /\ part \in {"ledger", "bundle", "service"}
    /\ Init /\ BundleInit /\ ServiceInit
    /\ part # "ledger" => db.version = 0

StorageNext ==
    \/ part = "ledger" /\ Next /\ UNCHANGED <<part, bundleVars, serviceVars>>
    \/ part = "bundle" /\ BundleNext /\ UNCHANGED <<part, vars, serviceVars>>
    \/ part = "service" /\ ServiceNext /\ UNCHANGED <<part, vars, bundleVars>>

StorageSpec == StorageInit /\ [][StorageNext]_storageVars

\* The cfg gives Process and Command the same value.
StorageSymmetry ==
    Permutations(Process) \cup Permutations(Scope) \cup Permutations(Draft)
=============================================================================
