---------------------------------- MODULE Login --------------------------------
(***************************************************************************)
(* What keeps somebody from guessing passwords: the in-memory rate limiter *)
(* (middleware/rate_limit.rs, background/rate_limit_cleanup.rs) and the    *)
(* lockout counted in the table login_attempts (login_attempts.rs), as     *)
(* POST /api/auth/login uses them for one address (routes/auth.rs).  Both  *)
(* have the same limit and the same window.  The limiter is lost when the  *)
(* server restarts, the table is not.                                      *)
(*                                                                         *)
(* Time is a counter.  A request reads the clock before it gets the lock   *)
(* of the limiter's map; Lag bounds how long it may have to wait.          *)
(***************************************************************************)
EXTENDS Vec, Naturals, Sequences, FiniteSets

CONSTANTS LoginTasks,            \* tasks that serve requests, one after another
          LoginMax,              \* LOGIN_MAX, 100 in the code
          Window,                \* LOGIN_WINDOW_SECONDS = LOGIN_LOCKOUT_SECONDS
          MaxAge,                \* max_age of the limiter's cleanup, an hour
          Lag,
          MaxTime,               \* bound on the clock
          MaxCrashes

ASSUME LoginAssumption ==
  /\ IsFiniteSet(LoginTasks)
  /\ LoginMax \in Nat \ {0} /\ Window \in Nat \ {0}
  /\ MaxAge \in Nat /\ MaxAge >= Window
  /\ Lag \in Nat /\ Lag < Window
  /\ MaxTime \in Nat /\ MaxCrashes \in Nat

VARIABLES clock,
          entries,               \* RateLimiter.entries at this address
          login,                 \* where the request of each task is
          failures,              \* attempted_at of the failed attempts
          allowed,               \* when the limiter let a request pass, since the start
          crashes

loginVars == <<clock, entries, login, failures, allowed, crashes>>

NoLogin == [at |-> "none"]

LoginInit ==
  /\ clock = 0
  /\ entries = << >>
  /\ login = [t \in LoginTasks |-> NoLogin]
  /\ failures = << >>
  /\ allowed = << >>
  /\ crashes = 0

-----------------------------------------------------------------------------
\* The stamps of s later than a window before `now` (`t > cutoff`, in integers).
Within(s, now, window) == Retain(s, {x \in Nat : x + window > now})

\* The COUNT of count_recent_failures.
RecentFailures == Cardinality({i \in DOMAIN failures : failures[i] + Window > clock})

At(t, where) == login' = [login EXCEPT ![t] = where]

\* A request arrives; check_rate_limit reads the clock.
LoginArrives(t) ==
  /\ login[t] = NoLogin
  /\ At(t, [at |-> "check", now |-> clock])
  /\ UNCHANGED <<clock, entries, failures, allowed, crashes>>

\* check_rate_limit, under the lock: prune, compare, record.
CheckRateLimit(t) ==
  /\ login[t].at = "check"
  /\ LET kept == Within(entries, login[t].now, Window)
     IN  IF Len(kept) >= LoginMax
         THEN entries' = kept /\ At(t, NoLogin) /\ UNCHANGED allowed
         ELSE /\ entries' = Append(kept, login[t].now)
              /\ At(t, [at |-> "count"])
              /\ allowed' = Append(allowed, clock)
  /\ UNCHANGED <<clock, failures, crashes>>

\* Mutant: one failure more than the limit is let pass.
IsLockedOutOffByOne(t) ==
  /\ login[t].at = "count"
  /\ At(t, IF RecentFailures > LoginMax
           THEN NoLogin ELSE [at |-> "verify"])
  /\ UNCHANGED <<clock, entries, failures, allowed, crashes>>

\* is_locked_out: the failures of the last window are counted.
IsLockedOut(t) ==
  /\ login[t].at = "count"
  /\ At(t, IF RecentFailures >= LoginMax
           THEN NoLogin ELSE [at |-> "verify"])
  /\ UNCHANGED <<clock, entries, failures, allowed, crashes>>

\* verify_password says no, record_attempt stores the failure.
RecordFailure(t) ==
  /\ login[t].at = "verify"
  /\ failures' = Append(failures, clock)
  /\ At(t, NoLogin)
  /\ UNCHANGED <<clock, entries, allowed, crashes>>

\* No such user, the right password (whose record nobody counts), or a query fails.
LoginEnds(t) ==
  /\ login[t].at \in {"count", "verify"}
  /\ At(t, NoLogin)
  /\ UNCHANGED <<clock, entries, failures, allowed, crashes>>

\* Mutant: the cleanup drops everything.
CleanupAll ==
  /\ entries # << >>
  /\ entries' = << >>
  /\ UNCHANGED <<clock, login, failures, allowed, crashes>>

\* The background task prunes what is older than MaxAge.
CleanupLimiter ==
  /\ entries' = Within(entries, clock, MaxAge)
  /\ entries' # entries
  /\ UNCHANGED <<clock, login, failures, allowed, crashes>>

\* A second passes, when no request has waited for the lock for too long.
LoginTick ==
  /\ clock < MaxTime
  /\ \A t \in LoginTasks : login[t].at = "check" => clock < login[t].now + Lag
  /\ clock' = clock + 1
  /\ UNCHANGED <<entries, login, failures, allowed, crashes>>

\* The server restarts: requests and limiter are gone.
LoginCrash ==
  /\ crashes < MaxCrashes
  /\ crashes' = crashes + 1
  /\ entries' = << >> /\ allowed' = << >>
  /\ login' = [t \in LoginTasks |-> NoLogin]
  /\ UNCHANGED <<clock, failures>>

LoginNext ==
  \/ \E t \in LoginTasks : \/ LoginArrives(t) \/ CheckRateLimit(t) \/ IsLockedOut(t)
                           \/ RecordFailure(t) \/ LoginEnds(t)
  \/ CleanupLimiter \/ LoginTick \/ LoginCrash

LoginSpec == LoginInit /\ [][LoginNext]_loginVars

-----------------------------------------------------------------------------
(* Properties *)

Times == 0 .. clock

LoginTypeOK ==
  /\ clock \in 0 .. MaxTime
  /\ entries \in Seq(Times) /\ Len(entries) <= LoginMax
  /\ login \in [LoginTasks -> [at : {"check"}, now : Times]
                              \cup [at : {"none", "count", "verify"}]]
  /\ failures \in Seq(Times)
  /\ allowed \in Seq(Times)
  /\ crashes \in 0 .. MaxCrashes

\* The positions of the stamps of s in the window that ends at `end`.
InWindow(s, end, window) == {i \in DOMAIN s : s[i] <= end /\ s[i] + window > end}

\* rate_limit.rs calls itself a sliding window: between restarts no window, shortened
\* by what a request may wait between reading the clock and recording itself, contains
\* more than LoginMax requests that passed, whatever is pruned and cleaned up.
WindowLimit == \A end \in Times :
  Cardinality(InWindow(allowed, end, Window - Lag)) <= LoginMax

\* Across restarts the lockout bounds the guesses.  Counting and recording are two
\* statements, so requests can pass together, but not more of them than there are tasks.
GuessesBounded == \A end \in Times :
  Cardinality(InWindow(failures, end, Window)) <= LoginMax - 1 + Cardinality(LoginTasks)
=============================================================================
