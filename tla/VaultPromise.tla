---------------------------- MODULE VaultPromise ----------------------------
(***************************************************************************)
(* What the vault of a user promises to the programs that use it, without  *)
(* slots, handles, files, keys or sequence numbers: a table of entries     *)
(* that is stored, and a view of it while it is unlocked.  A change goes   *)
(* to the view and to the stored table together, or, when it is answered   *)
(* with an error, to the view alone.                                       *)
(***************************************************************************)
CONSTANTS Users, Ids,
          Absent,    \* what stands under an identifier that is not in use
          Locked     \* the view of a locked vault

VARIABLES stored,    \* the table on stable storage
          view       \* the table as the unlocked vault shows it, or Locked

vars == <<stored, view>>

Empty == [id \in Ids |-> Absent]

Init ==
  /\ stored = [u \in Users |-> Empty]
  /\ view = [u \in Users |-> Locked]

\* The new view differs from the old one in one entry.
OneEntryChanges(u) ==
  /\ view[u] # Locked /\ view'[u] # Locked
  /\ \E id \in Ids : \A other \in Ids \ {id} : view'[u][other] = view[u][other]
Others(f, g, u) == \A other \in Users \ {u} : g[other] = f[other]

Unlock(u) ==
  /\ view[u] = Locked /\ view'[u] # Locked
  /\ view' = [view EXCEPT ![u] = stored[u]]
  /\ UNCHANGED stored

\* One vault is locked, or several are by a timer, a signal or a restart.
Lock ==
  /\ \A u \in Users : view'[u] \in {view[u], Locked}
  /\ DOMAIN view' = Users
  /\ UNCHANGED stored

\* A change that is acknowledged is stored.
Change(u) ==
  /\ OneEntryChanges(u) /\ Others(view, view', u)
  /\ stored' = [stored EXCEPT ![u] = view'[u]]

\* A change that is not stored is seen until the vault is locked.
FailedChange(u) ==
  /\ OneEntryChanges(u) /\ Others(view, view', u)
  /\ UNCHANGED stored

\* The program that serves the vault ends after it stored a change and before
\* it acknowledged it.
UnansweredChange(u) ==
  /\ view[u] # Locked
  /\ view' = [other \in Users |-> Locked]
  /\ \E id \in Ids : \A other \in Ids \ {id} : stored'[u][other] = view[u][other]
  /\ Others(stored, stored', u)

\* A new vault takes the place of the old one.
Replace(u) ==
  /\ UNCHANGED view
  /\ stored' = [stored EXCEPT ![u] = Empty]

Next ==
  \/ Lock
  \/ \E u \in Users : \/ Unlock(u) \/ Change(u) \/ FailedChange(u)
                      \/ UnansweredChange(u) \/ Replace(u)

Spec == Init /\ [][Next]_vars
=============================================================================
