--------------------------- MODULE LoginThrottle ---------------------------
(***************************************************************************)
(* The two limits of a client's address (src/src/auth_service.py): failed  *)
(* logins, counted in the audit table by requests that are serialized only *)
(* per stripe of user names, and registrations, counted in a table of one  *)
(* process that drops its least recently used address when it is full.     *)
(***************************************************************************)
EXTENDS Integers, Sequences, FiniteSets

CONSTANTS
    Threads,     \* threads that serve logins
    UserNames,   \* user names tried from one address
    Stripes,     \* _LOGIN_LOCK_STRIPES, each given by the names hashed to it
    NameLimit,   \* AUTH_RATE_LIMIT_ACCOUNT_FAILURES
    AddressLimit,\* AUTH_RATE_LIMIT_IP_FAILURES
    Addresses,   \* addresses that register
    RegisterLimit, Window, MaxKeys,  \* limits of _register_rate_limited
    MaxTime,     \* bound: the clock
    NoThread     \* nobody holds a lock; no name is at hand

ThrottleAssumption ==
    /\ NoThread \notin Threads \cup UserNames
    /\ IsFiniteSet(Stripes) /\ \A n \in UserNames : \E s \in Stripes : n \in s
    /\ {NameLimit, AddressLimit, RegisterLimit, Window, MaxKeys} \subseteq Nat \ {0}
    /\ MaxTime \in Nat

VARIABLES
    rows,      \* name |-> audited failures in the window
    counted,   \* name |-> those since the last success
    stripeLock,\* stripe |-> thread
    login,     \* thread |-> where _try_login is, and its name
    now,       \* time.monotonic
    attempts,  \* _REGISTER_ATTEMPTS: address |-> deque of times
    keys,      \* its order, least recently used first
    admitted   \* history: times an address was let through since it has a key

loginVars == <<rows, counted, stripeLock, login>>
registerVars == <<now, attempts, keys, admitted>>
throttleVars == <<loginVars, registerVars>>

Away == [pc |-> "idle", name |-> NoThread]

TypeOKThrottle ==
    /\ rows \in [UserNames -> Nat] /\ counted \in [UserNames -> Nat]
    /\ stripeLock \in [Stripes -> Threads \cup {NoThread}]
    /\ login \in [Threads -> [pc : {"idle", "lock", "count", "password", "fail", "success"},
                              name : UserNames \cup {NoThread}]]
    /\ now \in 0..MaxTime
    /\ attempts \in [Addresses -> Seq(0..MaxTime)] /\ admitted \in [Addresses -> Seq(0..MaxTime)]

InitThrottle ==
    /\ rows = [n \in UserNames |-> 0] /\ counted = rows
    /\ stripeLock = [s \in Stripes |-> NoThread]
    /\ login = [p \in Threads |-> Away]
    /\ now = 0 /\ keys = <<>>
    /\ attempts = [a \in Addresses |-> <<>>] /\ admitted = attempts

-----------------------------------------------------------------------------
(* Logins from one address.                                                *)

StripeOf(n) == CHOOSE s \in Stripes : n \in s
Stripe(p) == StripeOf(login[p].name)
Move(p, pc) == login' = [login EXCEPT ![p].pc = pc]

\* The rows of the audit table that count for the address.
Audited == UNION {{n} \X (1..rows[n]) : n \in UserNames}
AddressFailures == Cardinality(Audited)

Arrive(p) ==
    /\ login[p].pc = "idle"
    /\ \E n \in UserNames : login' = [login EXCEPT ![p] = [pc |-> "lock", name |-> n]]
    /\ UNCHANGED <<rows, counted, stripeLock>>

StripeFreeUnchecked(p) == TRUE
StripeFree(p) == stripeLock[Stripe(p)] = NoThread
TakeStripe(p) ==
    /\ login[p].pc = "lock" /\ StripeFree(p)
    /\ stripeLock' = [stripeLock EXCEPT ![Stripe(p)] = p]
    /\ Move(p, "count")
    /\ UNCHANGED <<rows, counted>>

Return(p) == /\ login' = [login EXCEPT ![p] = Away]
             /\ stripeLock' = [stripeLock EXCEPT ![Stripe(p)] = NoThread]

BelowLimits(p) == /\ counted[login[p].name] < NameLimit
                  /\ AddressFailures < AddressLimit
\* recent_login_failure_counts; a blocked attempt is not a failure.
Count(p) ==
    /\ login[p].pc = "count"
    /\ IF BelowLimits(p) THEN Move(p, "password") /\ UNCHANGED stripeLock ELSE Return(p)
    /\ UNCHANGED <<rows, counted>>

\* authenticate_user and create_auth_session; what raises records nothing.
Password(p) ==
    /\ login[p].pc = "password"
    /\ \/ (Move(p, "fail") \/ Move(p, "success")) /\ UNCHANGED stripeLock
       \/ Return(p)
    /\ UNCHANGED <<rows, counted>>

AuditFailure(p) ==
    /\ login[p].pc = "fail"
    /\ rows' = [rows EXCEPT ![login[p].name] = @ + 1]
    /\ counted' = [counted EXCEPT ![login[p].name] = @ + 1]
    /\ Return(p)

\* A success restarts the count of the name, except for failures of the same
\* second, and leaves that of the address.
AuditSuccess(p) ==
    /\ login[p].pc = "success"
    /\ \E k \in 0..counted[login[p].name] :
          counted' = [counted EXCEPT ![login[p].name] = k]
    /\ Return(p)
    /\ UNCHANGED rows

\* The oldest failure of a name leaves the window.
Age(n) ==
    /\ rows[n] > 0
    /\ rows' = [rows EXCEPT ![n] = @ - 1]
    /\ counted' = [counted EXCEPT ![n] = IF @ > rows[n] - 1 THEN rows[n] - 1 ELSE @]
    /\ UNCHANGED <<stripeLock, login>>

Login(p) == \/ Arrive(p) \/ TakeStripe(p) \/ Count(p) \/ Password(p)
            \/ AuditFailure(p) \/ AuditSuccess(p)

-----------------------------------------------------------------------------
(* _register_rate_limited: one call is one critical section, for which the *)
(* clock was read before its lock was free.                                *)

FreshTooShort(t, s) == t - s < Window - 1
Fresh(t, s) == t - s < Window

\* The table with address a at its end, with the new times for it; the oldest
\* address is dropped when there are too many.
Store(order, table, a, new) ==
    LET lost == IF Len(order) > MaxKeys THEN {Head(order)} ELSE {}
    IN  [k \in Addresses |-> IF k \in lost THEN <<>> ELSE IF k = a THEN new ELSE table[k]]

Register(a) ==
    \E t \in 0..now, old \in 0..Len(attempts[a]) :
      LET kept == SubSeq(attempts[a], old + 1, Len(attempts[a]))
          order == Append(SelectSeq(keys, LAMBDA k : k # a), a)
      IN /\ \A i \in 1..old : ~Fresh(t, attempts[a][i])
         /\ old < Len(attempts[a]) => Fresh(t, attempts[a][old + 1])
         /\ IF Len(kept) >= RegisterLimit
              THEN /\ attempts' = [attempts EXCEPT ![a] = kept]
                   /\ keys' = order
                   /\ UNCHANGED admitted
              ELSE /\ attempts' = Store(order, attempts, a, Append(kept, t))
                   /\ admitted' = Store(order, admitted, a, Append(admitted[a], t))
                   /\ keys' = IF Len(order) > MaxKeys THEN Tail(order) ELSE order
         /\ UNCHANGED now

Tick == now < MaxTime /\ now' = now + 1 /\ UNCHANGED <<attempts, keys, admitted>>

NextThrottle ==
    \/ (\E p \in Threads : Login(p)) /\ UNCHANGED registerVars
    \/ (\E n \in UserNames : Age(n)) /\ UNCHANGED registerVars
    \/ (\E a \in Addresses : Register(a)) /\ UNCHANGED loginVars
    \/ Tick /\ UNCHANGED loginVars

SpecThrottle == InitThrottle /\ [][NextThrottle]_throttleVars

-----------------------------------------------------------------------------
\* Logins of different names pass the address's limit together, but no more
\* of them than there are stripes: the failures of an address exceed its limit
\* by less than that, whatever the number of threads.
AddressOvershootIsBounded ==
    AddressFailures <= AddressLimit + Cardinality(Stripes) - 1

\* In no window does an address register more often than its limit, as long as
\* the table has not dropped it for 10000 others.
RegistrationsWithinLimit ==
    \A a \in Addresses :
        Cardinality({i \in DOMAIN admitted[a] : now - admitted[a][i] < Window}) <= RegisterLimit
=============================================================================
