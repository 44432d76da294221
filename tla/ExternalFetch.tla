--------------------------- MODULE ExternalFetch ---------------------------
(***************************************************************************)
(* fetch_text_from_external_url of src/src/importers.py: one download of a *)
(* remote subscription.  The thread that fetches follows redirects, tries  *)
(* the addresses of each host and reads the body; the thread of            *)
(* _FetchDeadlineGuard's timer cuts its connections when the deadline      *)
(* passes.  They share the guard's fields, each access under its lock      *)
(* being one step.  A server may answer, stall, trickle, fail or never     *)
(* end.                                                                    *)
(***************************************************************************)
EXTENDS Naturals

CONSTANTS
    Addresses,     \* what a host name can resolve to
    Public,        \* the addresses that are global
    MaxRedirects,  \* MAX_EXTERNAL_REDIRECTS
    MaxChunks      \* MAX_REMOTE_SUBSCRIPTION_BYTES, in chunks

FetchAssumption ==
    /\ Public \subseteq Addresses
    /\ MaxRedirects \in Nat
    /\ MaxChunks \in Nat

VARIABLES
    pc,          \* where the fetching thread is
    hop,         \* redirect_index
    addresses,   \* addresses of this hop not yet tried
    conn,        \* number of the current connection
    total,       \* chunks of the body read
    truncated,   \* the body ended because the connection was cut
    result,      \* what the fetch returns or raises
    late,        \* time.monotonic() >= deadline
    timer,       \* the timer thread
    doomed,      \* _fire's copy of the sockets it still has to shut down
    sockets,     \* _sockets: the registered duplicates
    expired, closed,   \* _expired, _closed
    openDups,    \* duplicates whose descriptor is open
    closing,     \* close()'s own list, taken from _sockets
    cut          \* connections that were shut down

fetchVars == <<pc, hop, addresses, conn, total, truncated, result>>
guardVars == <<timer, doomed, sockets, expired, closed, openDups, closing, cut>>
downloadVars == <<fetchVars, late, guardVars>>

Steps == {"resolve", "connect", "dup", "register", "refuse", "headers",
          "redirect", "body", "check", "cancel", "swap", "close", "done"}

TypeOKFetch ==
    /\ pc \in Steps
    /\ hop \in 0..MaxRedirects
    /\ addresses \subseteq Addresses
    /\ conn \in Nat /\ total \in 0..MaxChunks
    /\ result \in {"none", "ok", "error", "timeout"}
    /\ {late, expired, closed, truncated} \subseteq BOOLEAN
    /\ timer \in {"armed", "firing", "over"}
    /\ \A s \in {doomed, sockets, openDups, closing, cut} : s \subseteq 1..conn

InitFetch ==
    /\ pc = "resolve" /\ hop = 0
    /\ addresses = {} /\ conn = 0 /\ total = 0
    /\ truncated = FALSE /\ result = "none" /\ late = FALSE
    /\ timer = "armed" /\ doomed = {} /\ sockets = {} /\ openDups = {} /\ closing = {}
    /\ cut = {}
    /\ expired = FALSE /\ closed = FALSE

\* The fetch is over: the finally block of fetch_text_from_external_url
\* follows.  Once the deadline has passed, every exception becomes a timeout.
End(r) ==
    /\ pc' = "cancel"
    /\ result' = IF r = "error" /\ late THEN "timeout" ELSE r

\* _resolve_public_external_url: a name without addresses or with any that is
\* not public ends the fetch.  The name may resolve differently every time.
Resolve ==
    /\ pc = "resolve"
    /\ \/ late /\ End("timeout") /\ UNCHANGED addresses
       \/ \E found \in SUBSET Addresses :
            /\ ~late
            /\ addresses' = found
            /\ IF found # {} /\ found \subseteq Public
                 THEN pc' = "connect" /\ UNCHANGED result
                 ELSE End("error")
    /\ UNCHANGED <<hop, conn, total, truncated, late, guardVars>>

\* The loop over the addresses: the deadline, then the next address.
GiveUp ==
    /\ pc = "connect"
    /\ late \/ addresses = {}
    /\ End(IF late THEN "timeout" ELSE "error")
    /\ UNCHANGED <<hop, addresses, conn, total, truncated, late, guardVars>>

\* _create_pinned_connection to the address that was checked.
Connect ==
    /\ pc = "connect" /\ ~late /\ addresses # {}
    /\ \E a \in addresses :
         /\ addresses' = addresses \ {a}
         /\ \/ UNCHANGED <<pc, conn>>            \* refused, or timed out
            \/ pc' = "dup" /\ conn' = conn + 1
    /\ UNCHANGED <<hop, total, truncated, result, late, guardVars>>

\* register: duplicate the socket; without a duplicate the connection is
\* given up and the next address tried.
Duplicate ==
    /\ pc = "dup"
    /\ \/ pc' = "connect" /\ UNCHANGED openDups
       \/ pc' = "register" /\ openDups' = openDups \cup {conn}
    /\ UNCHANGED <<hop, addresses, conn, total, truncated, result, late,
                   timer, doomed, sockets, expired, closed, closing, cut>>

AcceptsAlways == TRUE
Accepts == ~(expired \/ closed)
Register ==
    /\ pc = "register"
    /\ IF Accepts
         THEN sockets' = sockets \cup {conn} /\ pc' = "headers"
         ELSE pc' = "refuse" /\ UNCHANGED sockets
    /\ UNCHANGED <<hop, addresses, conn, total, truncated, result, late,
                   timer, doomed, expired, closed, openDups, closing, cut>>

RefusedDupsKept == openDups
RefusedDups == openDups \ {conn}
\* Too late to register: shut the connection down here.
Refuse ==
    /\ pc = "refuse"
    /\ cut' = cut \cup {conn}
    /\ openDups' = RefusedDups
    /\ pc' = "headers"
    /\ UNCHANGED <<hop, addresses, conn, total, truncated, result, late,
                   timer, doomed, sockets, expired, closed, closing>>

\* session.get returns a response, or fails and the next address is tried.  A
\* connection that was shut down fails, unless the answer had arrived before.
Headers ==
    /\ pc = "headers"
    /\ \/ pc' \in {"redirect", "body", "connect"} /\ UNCHANGED result
       \/ End("error")                             \* raise_for_status
    /\ UNCHANGED <<hop, addresses, conn, total, truncated, late, guardVars>>

Redirect ==
    /\ pc = "redirect"
    /\ \/ End("error") /\ UNCHANGED hop            \* no Location
       \/ /\ hop = MaxRedirects
          /\ End("error") /\ UNCHANGED hop
       \/ /\ hop < MaxRedirects
          /\ hop' = hop + 1 /\ pc' = "resolve" /\ UNCHANGED result
    /\ UNCHANGED <<addresses, conn, total, truncated, late, guardVars>>

ReadChunk ==
    /\ pc = "body"
    /\ IF late \/ total = MaxChunks
         THEN End(IF late THEN "timeout" ELSE "error") /\ UNCHANGED total
         ELSE total' = total + 1 /\ UNCHANGED <<pc, result>>
    /\ UNCHANGED <<hop, addresses, conn, truncated, late, guardVars>>

\* The end of the body: the server's, or that of a connection cut in a
\* response that only its end delimits.
ReadEnd ==
    /\ pc = "body"
    /\ pc' = "check"
    /\ truncated' \in {FALSE} \cup {conn \in cut}
    /\ UNCHANGED <<hop, addresses, conn, total, result, late, guardVars>>

ReadFails ==
    /\ pc = "body"
    /\ End("error")
    /\ UNCHANGED <<hop, addresses, conn, total, truncated, late, guardVars>>

TooLateUnchecked == FALSE
TooLate == late
\* The last test of the deadline, after the body.
Check ==
    /\ pc = "check"
    /\ End(IF TooLate THEN "timeout" ELSE "ok")
    /\ UNCHANGED <<hop, addresses, conn, total, truncated, late, guardVars>>

-----------------------------------------------------------------------------
(* close: cancel the timer, take the list under the lock, close its        *)
(* members.                                                                 *)

CancelTimer ==
    /\ pc = "cancel"
    /\ timer' = IF timer = "armed" THEN "over" ELSE timer
    /\ pc' = "swap"
    /\ UNCHANGED <<hop, addresses, conn, total, truncated, result, late,
                   doomed, sockets, expired, closed, openDups, closing, cut>>

Swap ==
    /\ pc = "swap"
    /\ closed' = TRUE /\ closing' = sockets /\ sockets' = {}
    /\ pc' = "close"
    /\ UNCHANGED <<hop, addresses, conn, total, truncated, result, late,
                   timer, doomed, expired, openDups, cut>>

CloseOne ==
    /\ pc = "close"
    /\ IF closing = {}
         THEN pc' = "done" /\ UNCHANGED <<closing, openDups>>
         ELSE \E c \in closing :
                /\ closing' = closing \ {c} /\ openDups' = openDups \ {c}
                /\ UNCHANGED pc
    /\ UNCHANGED <<hop, addresses, conn, total, truncated, result, late,
                   timer, doomed, sockets, expired, closed, cut>>

Fetch == \/ Resolve \/ GiveUp \/ Connect \/ Duplicate \/ Register \/ Refuse
         \/ Headers \/ Redirect \/ ReadChunk \/ ReadEnd \/ ReadFails \/ Check
         \/ CancelTimer \/ Swap \/ CloseOne

-----------------------------------------------------------------------------
(* The timer thread: mark, copy the list, then shut the copies down. *)

Deadline == ~late /\ late' = TRUE /\ UNCHANGED <<fetchVars, guardVars>>

Fire ==
    /\ timer = "armed" /\ late
    /\ timer' = "firing" /\ expired' = TRUE /\ doomed' = sockets
    /\ UNCHANGED <<fetchVars, late, sockets, closed, openDups, closing, cut>>

\* A duplicate that close() has closed in the meantime only raises.
Shutdown ==
    /\ timer = "firing"
    /\ IF doomed = {}
         THEN timer' = "over" /\ UNCHANGED <<doomed, cut>>
         ELSE \E c \in doomed :
                /\ doomed' = doomed \ {c}
                /\ cut' = cut \cup ({c} \cap openDups)
                /\ UNCHANGED timer
    /\ UNCHANGED <<fetchVars, late, sockets, expired, closed, openDups, closing>>

NextFetch == Fetch \/ Deadline \/ Fire \/ Shutdown

\* The fetching thread runs, except that a read waits for a server that owes
\* nothing; a read from a connection that was shut down returns.  Time passes
\* and the timer thread runs.
Reads == Headers \/ ReadChunk \/ ReadEnd \/ ReadFails
FairnessFetch ==
    /\ WF_downloadVars(Fetch /\ pc \notin {"headers", "body"})
    /\ WF_downloadVars(Reads /\ conn \in cut)
    /\ WF_downloadVars(Deadline) /\ WF_downloadVars(Fire \/ Shutdown)

SpecFetch == InitFetch /\ [][NextFetch]_downloadVars /\ FairnessFetch

-----------------------------------------------------------------------------
\* A body that is returned is the whole body: a connection that the timer cut
\* looks like the end of the answer, which the last test of the deadline
\* catches (src/src/importers.py:967).
ReturnedBodyIsComplete == result = "ok" => ~truncated

\* When the fetch has ended, no duplicate of a socket stays open, whichever
\* of close(), _fire and a late register met.
NoDuplicateLeaks == pc = "done" => openDups = {}

\* A fetch ends, whatever the server does: the deadline reaches a read that
\* is blocked, and a connection that was opened while it passed.
FetchEnds == <>(pc = "done")
=============================================================================
