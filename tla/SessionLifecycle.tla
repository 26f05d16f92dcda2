--------------------------- MODULE SessionLifecycle ---------------------------
(***************************************************************************)
(* What a Registered Executive session promises to its user, whatever      *)
(* happens in the Gateway and the network: a session is recorded once and  *)
(* over for good when it is over; a browser holds it for one stretch of    *)
(* time, after it was recorded; and a request that is sent on a session    *)
(* that is over is not granted.                                            *)
(***************************************************************************)
CONSTANTS
    Session,    \* the sessions
    Use,        \* the requests of the browser
    NoSession   \* "the browser holds none"

VARIABLES
    record,     \* the life of each session
    held,       \* the session the browser holds
    past,       \* the sessions it held before and does not hold again
    use         \* what has become of each request

vars == <<record, held, past, use>>

Init ==
    /\ record = [s \in Session |-> "none"]
    /\ held = NoSession
    /\ past = {}
    /\ use = [r \in Use |-> "idle"]

(* A session begins.                                                       *)
Begin(s) ==
    /\ record[s] = "none"
    /\ record' = [record EXCEPT ![s] = "active"]
    /\ UNCHANGED <<held, past, use>>

(* Sessions end, one that is revoked or several that expire.               *)
End(ended) ==
    /\ \A s \in ended : record[s] = "active"
    /\ record' = [s \in Session |-> IF s \in ended THEN "over" ELSE record[s]]
    /\ UNCHANGED <<held, past, use>>

Given == {held} \ {NoSession}

(* The browser gets a session, in place of the one it holds.               *)
Hold(s) ==
    /\ record[s] # "none"
    /\ s \notin past \cup Given
    /\ held' = s
    /\ past' = past \cup Given
    /\ UNCHANGED <<record, use>>

Drop ==
    /\ held # NoSession
    /\ held' = NoSession
    /\ past' = past \cup Given
    /\ UNCHANGED <<record, use>>

(* A request for a new session does not use the one that is held.          *)
Renew(r) ==
    /\ use[r] = "idle"
    /\ use' = [use EXCEPT ![r] = "renewal"]
    /\ UNCHANGED <<record, held, past>>

Ask(r) ==
    /\ use[r] = "idle"
    /\ use' = [use EXCEPT ![r] =
                 IF \E s \in Given : record[s] = "over" THEN "barred" ELSE "open"]
    /\ UNCHANGED <<record, held, past>>

Grant(r) ==
    /\ use[r] = "open"
    /\ use' = [use EXCEPT ![r] = "granted"]
    /\ UNCHANGED <<record, held, past>>

Next ==
    \/ \E s \in Session : Begin(s) \/ Hold(s)
    \/ \E ended \in SUBSET Session : End(ended)
    \/ Drop
    \/ \E r \in Use : Renew(r) \/ Ask(r) \/ Grant(r)

Spec == Init /\ [][Next]_vars
=============================================================================
