-------------------------- MODULE ClientLifecycle --------------------------
(***************************************************************************)
(* One page of the app and its Matrix client: apps/web/src/Lifecycle.ts,   *)
(* MatrixClientPeg.ts, and DeviceListener.whilePaused.                     *)
(*                                                                         *)
(* A login is a chain of steps with an await between any two of them.      *)
(* While it waits, the tab may lose the session lock, the server may end   *)
(* the session, and the user may log out or in.  All of these stop the     *)
(* client of MatrixClientPeg, and only some tell the login.  A login that  *)
(* throws ends; the client is the one of the login that created it.        *)
(***************************************************************************)
CONSTANTS
    Login,      \* bound: the logins of one page
    None        \* null

ASSUME NoneAssumption == None \notin Login

VARIABLES
    at,         \* the await that each login is in
    syncing,    \* the logins that want their client to sync (startSyncing)
    peg,        \* MatrixClientPeg.matrixClient
    running,    \* the clients that sync
    services,   \* the services that run
    paused,     \* whether a whilePaused waits for its function
    stolen,     \* sessionLockStolen
    soft,       \* mx_soft_logout in localStorage
    loggingOut, \* _isLoggingOut
    logout      \* the await that the logout is in

vars == <<at, syncing, peg, running, services, paused, stolen, soft, loggingOut, logout>>

(* A login that waits before it has a client: for a pickle key of its own  *)
(* session or of another one, for the storage, and for its tokens to be    *)
(* stored.                                                                 *)
Early == {"restoring", "replacing", "preparing", "persisting"}

(* A login that waits for the search index, for the stores and the         *)
(* encryption, and for startClient.                                        *)
Late == {"indexing", "assigning", "starting"}

Ended == {"none", "done", "failed"}

(* What starts before the client, what starts after it, historyIndexer and *)
(* DeviceListener.                                                         *)
Services == {"before", "after", "history", "listener"}

TypeOK ==
    /\ at \in [Login -> Early \cup Late \cup Ended]
    /\ syncing \subseteq Login
    /\ peg \in Login \cup {None}
    /\ running \subseteq Login
    /\ services \subseteq Services
    /\ paused \in BOOLEAN /\ stolen \in BOOLEAN
    /\ soft \in BOOLEAN /\ loggingOut \in BOOLEAN
    /\ logout \in {"none", "calling", "clearing"}

(* The page is opened, after a soft logout or not.                         *)
Init ==
    /\ at = [l \in Login |-> "none"]
    /\ syncing = {} /\ peg = None /\ running = {} /\ services = {}
    /\ paused = FALSE /\ stolen = FALSE
    /\ soft \in BOOLEAN /\ loggingOut = FALSE /\ logout = "none"

Goes(l, p) == at' = [at EXCEPT ![l] = p]

(* stopMatrixClient                                                        *)
Stop(unsetClient) ==
    /\ services' = {}
    /\ running' = running \ {peg}
    /\ peg' = IF unsetClient THEN None ELSE peg

Idle == \A l \in Login : at[l] \in Ended

(* No login is without its client.                                         *)
Settled == \A l \in Login : at[l] \notin Early

-----------------------------------------------------------------------------
(* How a login begins.  The app offers none while it loads.                *)

(* loadSession and restoreSessionFromStorage, when the page is opened.     *)
Restore(l) ==
    /\ \A k \in Login : at[k] = "none"
    /\ Goes(l, "restoring")
    /\ UNCHANGED <<syncing, peg, running, services, paused, stolen, soft, loggingOut, logout>>

CanLogIn(l) == at[l] = "none" /\ Settled /\ logout # "calling"

(* Mutant: the client that is being started is left where it is.           *)
MutLogIn(l) ==
    /\ CanLogIn(l) /\ ~soft
    /\ Goes(l, "replacing")
    /\ Stop(FALSE)
    /\ UNCHANGED <<syncing, paused, stolen, soft, loggingOut, logout>>

(* setLoggedIn.  After a soft logout there is another page, see Hydrate.   *)
LogIn(l) ==
    /\ CanLogIn(l) /\ ~soft
    /\ Goes(l, "replacing")
    /\ Stop(TRUE)
    /\ UNCHANGED <<syncing, paused, stolen, soft, loggingOut, logout>>

(* hydrateSession: the user signs in again after a soft logout, as the     *)
(* same user or as another.                                                *)
Hydrate(l) ==
    /\ CanLogIn(l) /\ soft /\ loggingOut /\ peg # None
    /\ \E p \in {"restoring", "replacing"} : Goes(l, p)
    /\ Stop(TRUE)
    /\ soft' = FALSE /\ loggingOut' = FALSE
    /\ UNCHANGED <<syncing, paused, stolen, logout>>

(* The beginning of doSetLoggedIn.  clearStorage first clears localStorage.*)
Begins(l, clear) ==
    /\ Goes(l, IF stolen THEN "failed" ELSE "preparing")
    /\ syncing' = IF soft \/ stolen THEN syncing ELSE syncing \cup {l}
    /\ soft' = (soft /\ (stolen \/ ~clear))

(* OverwriteLogin, which a module asks for in a page of the app; there is  *)
(* none before the client syncs.                                           *)
Overwrite(l) ==
    /\ CanLogIn(l) /\ peg # None
    /\ \A k \in Login : at[k] \notin {"indexing", "assigning"}
    /\ Begins(l, TRUE)
    /\ Stop(FALSE)
    /\ UNCHANGED <<paused, stolen, loggingOut, logout>>

-----------------------------------------------------------------------------
(* doSetLoggedIn and startMatrixClient, from one await to the next.        *)

Begin(l) ==
    /\ at[l] \in {"restoring", "replacing"}
    /\ Begins(l, at[l] = "replacing")
    /\ UNCHANGED <<peg, running, services, paused, stolen, loggingOut, logout>>

(* abortLogin: the storage is inconsistent and the user gives up.          *)
Abort(l) ==
    /\ at[l] = "preparing"
    /\ Goes(l, "failed") /\ soft' = FALSE
    /\ UNCHANGED <<syncing, peg, running, services, paused, stolen, loggingOut, logout>>

(* Mutant: the lock is not checked before the client is created.           *)
MutCreate(l) ==
    /\ at[l] = "preparing"
    /\ Goes(l, "persisting") /\ peg' = l
    /\ UNCHANGED <<syncing, running, services, paused, stolen, soft, loggingOut, logout>>

Create(l) ==
    /\ at[l] = "preparing"
    /\ IF stolen THEN Goes(l, "failed") /\ UNCHANGED peg
                 ELSE Goes(l, "persisting") /\ peg' = l
    /\ UNCHANGED <<syncing, running, services, paused, stolen, soft, loggingOut, logout>>

(* Mutant: the lock is not checked after the tokens were stored.           *)
MutPersisted(l) ==
    /\ at[l] = "persisting"
    /\ Goes(l, IF l \in syncing THEN "indexing" ELSE IF peg = None THEN "failed" ELSE "assigning")
    /\ services' = services \cup {"before"}
    /\ UNCHANGED <<syncing, peg, running, paused, stolen, soft, loggingOut, logout>>

(* persistCredentials is over, whether or not the storage worked.          *)
Persisted(l) ==
    /\ at[l] = "persisting"
    /\ IF stolen THEN Goes(l, "failed") /\ UNCHANGED services
       ELSE /\ Goes(l, IF l \in syncing THEN "indexing" ELSE IF peg = None THEN "failed" ELSE "assigning")
            /\ services' = services \cup {"before"}
    /\ UNCHANGED <<syncing, peg, running, paused, stolen, soft, loggingOut, logout>>

(* EventIndexPeg.init is over, and assign throws without a client.         *)
Indexed(l) ==
    /\ at[l] = "indexing"
    /\ Goes(l, IF peg = None THEN "failed" ELSE "assigning")
    /\ UNCHANGED <<syncing, peg, running, services, paused, stolen, soft, loggingOut, logout>>

(* assign awaits several things and uses this.matrixClient after each of   *)
(* them, so that it may throw when the client is gone; or the stores fail. *)
AssignFails(l) ==
    /\ at[l] = "assigning"
    /\ Goes(l, "failed")
    /\ UNCHANGED <<syncing, peg, running, services, paused, stolen, soft, loggingOut, logout>>

(* MatrixClientPeg.start calls startClient of the client that is there.    *)
Assigned(l) ==
    /\ at[l] = "assigning" /\ l \in syncing /\ peg # None
    /\ Goes(l, "starting")
    /\ running' = running \cup {peg}
    /\ UNCHANGED <<syncing, peg, services, paused, stolen, soft, loggingOut, logout>>

(* Mutant: a soft logout meanwhile is not looked for.                      *)
MutFinish(l, more) ==
    /\ Goes(l, IF stolen THEN "failed" ELSE "done")
    /\ services' = services \cup more \cup IF stolen THEN {} ELSE {"after", "listener"}
    /\ UNCHANGED <<peg, running, loggingOut>>

(* The end of startMatrixClient: what has waited for the client starts,    *)
(* unless the lock is gone; after a soft logout all of it stops again.     *)
Finish(l, more) ==
    /\ Goes(l, IF stolen THEN "failed" ELSE "done")
    /\ IF ~stolen /\ soft THEN Stop(FALSE) /\ loggingOut' = TRUE
       ELSE /\ services' = services \cup more \cup IF stolen THEN {} ELSE {"after", "listener"}
            /\ UNCHANGED <<peg, running, loggingOut>>

(* startClient is over.  historyIndexer.start throws without a client.     *)
Started(l) ==
    /\ at[l] = "starting" /\ peg # None
    /\ Finish(l, {"history"})
    /\ UNCHANGED <<syncing, paused, stolen, soft, logout>>

StartFails(l) ==
    /\ at[l] = "starting" /\ peg = None
    /\ Goes(l, "failed")
    /\ UNCHANGED <<syncing, peg, running, services, paused, stolen, soft, loggingOut, logout>>

(* A session that was logged out softly only gets its services.            *)
AssignedOnly(l) ==
    /\ at[l] = "assigning" /\ l \notin syncing /\ peg # None
    /\ Finish(l, {})
    /\ UNCHANGED <<syncing, paused, stolen, soft, logout>>

-----------------------------------------------------------------------------
(* What comes between.                                                     *)

(* onSessionLockStolen                                                     *)
Steal ==
    /\ ~stolen /\ stolen' = TRUE
    /\ Stop(TRUE)
    /\ UNCHANGED <<at, syncing, paused, soft, loggingOut, logout>>

(* The handler of Session.logged_out, which MatrixChat gives a client when *)
(* it is about to be started, hears the server.                            *)
Heard == peg # None /\ "before" \in services /\ ~loggingOut

(* softLogout                                                              *)
SoftLogout ==
    /\ Heard
    /\ soft' = TRUE /\ loggingOut' = TRUE
    /\ Stop(FALSE)
    /\ UNCHANGED <<at, syncing, paused, stolen, logout>>

(* logout, by the server or the user, who may also be on the page of the   *)
(* soft logout: the client is stopped and the server told.  A guest, or an *)
(* account that was deactivated, goes on to onLoggedOut without either.    *)
LogOut ==
    /\ logout = "none" /\ peg # None
    /\ Heard \/ (soft /\ loggingOut)
    /\ logout' = "calling"
    /\ \/ loggingOut' = TRUE /\ running' = running \ {peg}
       \/ UNCHANGED <<loggingOut, running>>
    /\ UNCHANGED <<at, syncing, peg, services, paused, stolen, soft>>

(* onLoggedOut, which first clears localStorage.                           *)
LoggedOut ==
    /\ logout = "calling" /\ logout' = "clearing"
    /\ Stop(TRUE)
    /\ soft' = FALSE
    /\ UNCHANGED <<at, syncing, paused, stolen, loggingOut>>

Cleared ==
    /\ logout = "clearing" /\ logout' = "none"
    /\ loggingOut' = FALSE
    /\ UNCHANGED <<at, syncing, peg, running, services, paused, stolen, soft>>

(* DeviceListener.whilePaused stops the listener, and starts it with the   *)
(* client that it had before when its function is over.                    *)
Pause ==
    /\ "listener" \in services /\ ~paused
    /\ paused' = TRUE /\ services' = services \ {"listener"}
    /\ UNCHANGED <<at, syncing, peg, running, stolen, soft, loggingOut, logout>>

Unpause ==
    /\ paused /\ paused' = FALSE
    /\ services' = services \cup {"listener"}
    /\ UNCHANGED <<at, syncing, peg, running, stolen, soft, loggingOut, logout>>

-----------------------------------------------------------------------------
LogsIn(l) ==
    \/ Restore(l) \/ LogIn(l) \/ Hydrate(l) \/ Overwrite(l)
    \/ Begin(l) \/ Abort(l) \/ Create(l) \/ Persisted(l) \/ Indexed(l)
    \/ AssignFails(l) \/ Assigned(l) \/ Started(l) \/ StartFails(l) \/ AssignedOnly(l)

Next ==
    \/ \E l \in Login : LogsIn(l)
    \/ Steal \/ SoftLogout \/ LogOut \/ LoggedOut \/ Cleared
    \/ Pause \/ Unpause

Spec == Init /\ [][Next]_vars

-----------------------------------------------------------------------------
(* A tab that has lost the session lock has no client and starts none, in  *)
(* whatever await its login was (Lifecycle.ts:107-112): another tab works  *)
(* on the same encryption store by now.                                    *)
StolenHasNoClient == stolen => peg = None /\ running = {}

(* No client syncs but the one that stopMatrixClient would stop.           *)
NoClientIsLost == running \subseteq {peg}

(* When the client was given up, the services are stopped with it, and a   *)
(* login that was under way starts none of them; but see                   *)
(* StoppedStaysStopped for the device listener.                            *)
AbandonedIsQuiet == peg = None => services \subseteq {"listener"}

(* After a soft logout nothing runs once the login under way has ended.    *)
SoftIsQuiet ==
    soft /\ loggingOut /\ logout = "none" /\ Idle => running = {} /\ services \subseteq {"listener"}

(* When the client was given up, all of the services are stopped.  The     *)
(* code does not see to it: whilePaused starts the listener again.         *)
StoppedStaysStopped == peg = None => services = {}
=============================================================================
