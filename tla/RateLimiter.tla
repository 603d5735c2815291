----------------------------- MODULE RateLimiter -----------------------------
(***************************************************************************)
(* TenantRateLimiter: two sliding windows of admission times, which the    *)
(* request threads of one tenant prune, measure and extend without a lock. *)
(* Tenants share nothing but the clock, so one of them is enough.          *)
(*                                                                         *)
(* A step ends where the interpreter may switch threads: after each call,  *)
(* the reading of the clock, popleft(), len(), append(), and at a backward *)
(* jump.  CPython 3.13 and later jump back to the loop's test; 3.11 and    *)
(* 3.12, which pyproject.toml:9 also allows, repeat the test at the bottom *)
(* of the loop and jump from there to its body (bottom).                   *)
(***************************************************************************)
EXTENDS Integers, Sequences, FiniteSets

CONSTANTS
  Threads,        \* request threads of the tenant
  PerMinute,      \* limits of the two windows; 0 disables one
  PerDay,
  Minute,         \* lengths of the windows (60 and 86400 in the code)
  Day,
  MaxTime         \* bound of the model on the clock

ASSUME RateLimiterAssumption ==
  /\ IsFiniteSet(Threads)
  /\ PerMinute \in Nat /\ PerDay \in Nat /\ MaxTime \in Nat
  /\ Minute \in Nat \ {0} /\ Day \in Nat \ {0}

Windows == {"minute", "day"}
Length(w) == IF w = "minute" THEN Minute ELSE Day
Limit(w) == IF w = "minute" THEN PerMinute ELSE PerDay

VARIABLES
  clock,          \* time.time(); taken to never step back
  bottom,         \* the interpreter tests at the bottom of a loop, so that a
                  \* switch fits between the test and the popleft(); it does
                  \* not change
  values,         \* the deques _minute[tenant] and _day[tenant]
  pc,             \* where each thread is in allow()
  at,             \* the window it is working on
  now,            \* its reading of the clock
  log             \* history: the times ever appended to each window, but for
                  \* those at its front that have left it by the clock

vars == <<clock, bottom, values, pc, at, now, log>>

(* "again" and "pop": the repeated test, and the popleft() it leads to. *)
Steps == {"idle", "window", "append"} \cup (IF bottom THEN {"again", "pop"} ELSE {})

TypeOK ==
  /\ clock \in Nat /\ bottom \in BOOLEAN
  /\ values \in [Windows -> Seq(Nat)]
  /\ pc \in [Threads -> Steps]
  /\ at \in [Threads -> Windows]
  /\ now \in [Threads -> Nat]
  /\ log \in [Windows -> Seq(Nat)]

Init ==
  /\ clock = 0 /\ bottom \in BOOLEAN
  /\ values = [w \in Windows |-> <<>>]
  /\ pc = [t \in Threads |-> "idle"]
  /\ at = [t \in Threads |-> "minute"]
  /\ now = [t \in Threads |-> 0]
  /\ log = [w \in Windows |-> <<>>]

(* allow() returns. *)
Return(t) ==
  /\ pc' = [pc EXCEPT ![t] = "idle"]
  /\ at' = [at EXCEPT ![t] = "minute"]
  /\ now' = [now EXCEPT ![t] = 0]

(* The thread goes on, with time n, to the first window of ws that has a    *)
(* limit; if none is left the request is allowed.                           *)
FirstOf(ws) == IF "minute" \in ws /\ PerMinute # 0 THEN "minute" ELSE "day"

GoOn(t, ws, n) ==
  IF FirstOf(ws) \notin ws \/ Limit(FirstOf(ws)) = 0
  THEN Return(t)
  ELSE /\ pc' = [pc EXCEPT ![t] = "window"]
       /\ at' = [at EXCEPT ![t] = FirstOf(ws)]
       /\ now' = [now EXCEPT ![t] = n]

(* The entries of s that are later than a moment. *)
After(s, moment) == {i \in DOMAIN s : s[i] > moment}

(* Mutants: the clock is read too early; only the day is counted.            *)
StartEarly(t) ==
  /\ pc[t] = "idle"
  /\ GoOn(t, Windows, clock - 1)
  /\ UNCHANGED <<clock, bottom, values, log>>

StartDayOnly(t) ==
  /\ pc[t] = "idle"
  /\ GoOn(t, {"day"}, clock)
  /\ UNCHANGED <<clock, bottom, values, log>>

(* A request of the tenant reaches allow(), which reads the clock. *)
Start(t) ==
  /\ pc[t] = "idle"
  /\ GoOn(t, Windows, clock)
  /\ UNCHANGED <<clock, bottom, values, log>>

(* Mutants: an entry leaves the window one moment too soon, or too late. *)
StaleEarly(t) ==
  /\ values[at[t]] # <<>>
  /\ Head(values[at[t]]) <= now[t] - Length(at[t]) + 1

StaleLate(t) ==
  /\ values[at[t]] # <<>>
  /\ Head(values[at[t]]) < now[t] - Length(at[t])

(* The oldest entry is out of the window: values[0] <= cutoff. *)
Stale(t) ==
  /\ values[at[t]] # <<>>
  /\ Head(values[at[t]]) <= now[t] - Length(at[t])

Popped(t) == values' = [values EXCEPT ![at[t]] = Tail(@)]

(* The test and the popleft() after it, with nothing between them. *)
Prune(t) ==
  /\ pc[t] = "window"
  /\ Stale(t)
  /\ Popped(t)
  /\ pc' = [pc EXCEPT ![t] = IF bottom THEN "again" ELSE "window"]
  /\ UNCHANGED <<clock, bottom, at, now, log>>

(* The test at the bottom of the loop finds an oldest entry to remove. *)
Test(t) ==
  /\ pc[t] = "again"
  /\ Stale(t)
  /\ pc' = [pc EXCEPT ![t] = "pop"]
  /\ UNCHANGED <<clock, bottom, values, at, now, log>>

(* popleft() removes whatever is the oldest entry by then; on an empty      *)
(* deque it raises IndexError, which ends the call.                         *)
Pop(t) ==
  /\ pc[t] = "pop"
  /\ \/ /\ values[at[t]] # <<>>
        /\ Popped(t)
        /\ pc' = [pc EXCEPT ![t] = "again"]
        /\ UNCHANGED <<at, now>>
     \/ /\ values[at[t]] = <<>>
        /\ Return(t)
        /\ UNCHANGED values
  /\ UNCHANGED <<clock, bottom, log>>

(* The loop is over. *)
Pruned(t) == pc[t] \in {"window", "again"} /\ ~Stale(t)

(* len(values) finds the window full, and the request is refused; an entry  *)
(* it made in the other window stays.                                       *)
Refuse(t) ==
  /\ Pruned(t)
  /\ Len(values[at[t]]) >= Limit(at[t])
  /\ Return(t)
  /\ UNCHANGED <<clock, bottom, values, log>>

(* Mutant: one entry more than the limit. *)
MeasureInclusive(t) ==
  /\ Pruned(t)
  /\ Len(values[at[t]]) <= Limit(at[t])
  /\ pc' = [pc EXCEPT ![t] = "append"]
  /\ UNCHANGED <<clock, bottom, values, at, now, log>>

(* len(values) finds room. *)
Measure(t) ==
  /\ Pruned(t)
  /\ Len(values[at[t]]) < Limit(at[t])
  /\ pc' = [pc EXCEPT ![t] = "append"]
  /\ UNCHANGED <<clock, bottom, values, at, now, log>>

(* The room is taken, by a thread that has not looked since. *)
Add(t) ==
  /\ pc[t] = "append"
  /\ values' = [values EXCEPT ![at[t]] = Append(@, now[t])]
  /\ log' = [log EXCEPT ![at[t]] = Append(@, now[t])]
  /\ GoOn(t, IF at[t] = "minute" THEN {"day"} ELSE {}, now[t])
  /\ UNCHANGED <<clock, bottom>>

(* s without the entries at its front that are not later than a moment. *)
Trimmed(s, moment) ==
  IF After(s, moment) = {} THEN <<>>
  ELSE SubSeq(s, CHOOSE i \in After(s, moment) : \A j \in After(s, moment) : i <= j, Len(s))

Tick ==
  /\ clock < MaxTime
  /\ clock' = clock + 1
  /\ log' = [w \in Windows |-> Trimmed(log[w], clock' - Length(w))]
  /\ UNCHANGED <<bottom, values, pc, at, now>>

Allow(t) == Start(t) \/ Prune(t) \/ Test(t) \/ Pop(t) \/ Refuse(t) \/ Measure(t) \/ Add(t)

Next == Tick \/ \E t \in Threads : Allow(t)

Spec == Init /\ [][Next]_vars
-------------------------------------------------------------------------------
(* The threads that found room in window w and have not taken it yet. *)
Pending(w) == {t \in Threads : pc[t] = "append" /\ at[t] = w}

(* The check and the append are not atomic, yet the room handed out beyond  *)
(* the limit is at most one place for every other thread.                   *)
RoomIsBounded ==
  \A w \in Windows :
    Limit(w) # 0 =>
      Len(values[w]) + Cardinality(Pending(w))
        <= Limit(w) + Cardinality(Threads) - 1

(* The quota over every sliding window, counted over all the admissions     *)
(* ever made and not over what the deques still hold: it is exceeded by at  *)
(* most the number of other threads, whichever thread prunes for whom.      *)
(* This is so on CPython 3.13 and later; on 3.11 and 3.12 a thread may pop  *)
(* an entry that is in the window, and no such bound holds.                 *)
QuotaUpToThreads ==
  \A w \in Windows :
    ~bottom /\ Limit(w) # 0 =>
      Cardinality(After(log[w], clock - Length(w)))
        <= Limit(w) + Cardinality(Threads) - 1

(* The quota as documented: no more than the limit in any sliding window.   *)
QuotaRespected ==
  \A w \in Windows :
    Limit(w) # 0 => Cardinality(After(log[w], clock - Length(w))) <= Limit(w)

(* A request is refused only if its window is full, up to the entries that  *)
(* other threads appended late and out of order behind a newer one, which   *)
(* pruning from the front does not reach.                                   *)
RefusedWhenFull ==
  [][ \A t \in Threads :
        Refuse(t) =>
          Cardinality(After(values[at[t]], now[t] - Length(at[t])))
            >= Limit(at[t]) - (Cardinality(Threads) - 1) ]_vars

(* Who is admitted by the day counts in the minute as well, as long as the  *)
(* minute lasts: where nothing comes between a test and its popleft(), on   *)
(* CPython 3.13 and later, no order of the threads' pruning loses the entry. *)
CountedInBoth ==
  ~bottom /\ PerMinute # 0 =>
    \A v \in {x \in 0..clock : x > clock - Minute} :
      Cardinality({i \in DOMAIN log["day"] : log["day"][i] = v})
        <= Cardinality({i \in DOMAIN values["minute"] : values["minute"][i] = v})
===============================================================================
