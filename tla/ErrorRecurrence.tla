--------------------------- MODULE ErrorRecurrence ---------------------------
(***************************************************************************)
(* AllExceptionsFilter, through which every failed request of the API is   *)
(* answered, and ErrorRecurrenceTrackerService, which it tells of the      *)
(* error and which raises an alert when one error code recurs.  The        *)
(* tracker keeps its window in memory: a restart forgets it.               *)
(***************************************************************************)
EXTENDS Integers, Sequences, FiniteSets

CONSTANTS
  Window,          (* windowMs                                               *)
  Threshold,       (* hits in the window that raise an alert                 *)
  MaxOccurrences,  (* occurrences kept per code                              *)
  MaxClock,        (* bound on the clock                                     *)
  MaxErrors,       (* bound on the errors                                    *)
  MaxStarts        (* bound on the restarts                                  *)

ASSUME RecurrenceAssumption ==
  /\ {Window, MaxClock, MaxErrors, MaxStarts} \subseteq Nat
  /\ Threshold \in Nat \ {0} /\ MaxOccurrences \in Nat
  /\ Threshold <= MaxOccurrences

VARIABLES
  clock,
  store,           (* the occurrences kept for every code, each named by     *)
                   (* the answer that it belongs to and timed by it          *)
  alerted,         (* codes whose alert has been logged                      *)
  answers,         (* every answer so far: status, code, time and process    *)
  alerts,          (* the answers at which an alert was logged               *)
  started          (* how often the process has been started again           *)

trackerVars == <<clock, store, alerted, answers, alerts, started>>

Codes == {"ERR_BAD_REQUEST", "ERR_UNAUTHORIZED", "ERR_FORBIDDEN", "ERR_NOT_FOUND",
          "ERR_CONFLICT", "ERR_VALIDATION_FAILED", "ERR_RATE_LIMIT_EXCEEDED",
          "ERR_INTERNAL", "ERR_DUPLICATE_RECORD", "ERR_RECORD_NOT_FOUND",
          "ERR_REFERENTIAL_INTEGRITY", "ERR_DB_UNAVAILABLE", "ERR_UNKNOWN"}

Answer == [status : 400..599, code : Codes, at : Nat, run : Nat]

RecurrenceTypeOK ==
  /\ clock \in Nat /\ started \in Nat
  /\ store \in [Codes -> SUBSET Nat]
  /\ alerted \subseteq Codes
  /\ answers \in Seq(Answer)
  /\ alerts \subseteq DOMAIN answers

RecurrenceInit ==
  /\ clock = 0 /\ started = 0
  /\ store = [c \in Codes |-> {}] /\ alerted = {}
  /\ answers = <<>> /\ alerts = {}

-----------------------------------------------------------------------------
(* The filter *)

HttpStatusToCode(status) ==
  CASE status = 400 -> "ERR_BAD_REQUEST"
    [] status = 401 -> "ERR_UNAUTHORIZED"
    [] status = 403 -> "ERR_FORBIDDEN"
    [] status = 404 -> "ERR_NOT_FOUND"
    [] status = 409 -> "ERR_CONFLICT"
    [] status = 422 -> "ERR_VALIDATION_FAILED"
    [] status = 429 -> "ERR_RATE_LIMIT_EXCEEDED"
    [] OTHER -> "ERR_INTERNAL"

ClassifyPrismaError(code) ==
  CASE code = "P2002" -> <<409, "ERR_DUPLICATE_RECORD">>
    [] code = "P2025" -> <<404, "ERR_RECORD_NOT_FOUND">>
    [] code = "P2003" -> <<422, "ERR_REFERENTIAL_INTEGRITY">>
    [] code \in {"P1001", "P1002"} -> <<503, "ERR_DB_UNAVAILABLE">>
    [] OTHER -> <<500, "ERR_INTERNAL">>

(* An exception is an HttpException, a Prisma error, another Error or any  *)
(* other value.  The answer is the pair of its status and its code.        *)
Classify(exception) ==
  CASE exception[1] = "http" -> <<exception[2], HttpStatusToCode(exception[2])>>
    [] exception[1] = "prisma" -> ClassifyPrismaError(exception[2])
    [] exception[1] = "error" -> <<500, "ERR_INTERNAL">>
    [] OTHER -> <<500, "ERR_UNKNOWN">>

-----------------------------------------------------------------------------
(* The tracker *)

InWindow(i) == answers[i].at >= clock - Window

(* The occurrences of a code that are left when one more has been pushed   *)
(* and the oldest beyond the cap are spliced away.                         *)
Pushed(c) == {i \in store[c] : InWindow(i)} \cup {Len(answers) + 1}
Newest(occurrences) ==
  IF Cardinality(occurrences) <= MaxOccurrences THEN {occurrences}
  ELSE {kept \in SUBSET occurrences :
          /\ Cardinality(kept) = MaxOccurrences
          /\ \A i \in kept, j \in occurrences \ kept : j < i}

(* A mutant: an alert is logged once for a code.                           *)
TrackOnce(c) ==
  \E kept \in Newest(Pushed(c)) :
    /\ store' = [store EXCEPT ![c] = kept]
    /\ alerted' = IF Cardinality(kept) >= Threshold THEN alerted \cup {c} ELSE alerted
    /\ alerts' = IF Cardinality(kept) >= Threshold /\ c \notin alerted
                 THEN alerts \cup {Len(answers) + 1} ELSE alerts

Track(c) ==
  \E kept \in Newest(Pushed(c)) :
    /\ store' = [store EXCEPT ![c] = kept]
    /\ \/ /\ Cardinality(kept) >= Threshold
          /\ alerted' = alerted \cup {c}
          /\ alerts' = IF c \in alerted THEN alerts ELSE alerts \cup {Len(answers) + 1}
       \/ /\ Cardinality(kept) < Threshold
          /\ alerted' = alerted \ {c}
          /\ UNCHANGED alerts

Catch(exception) ==
  LET answer == Classify(exception)
  IN  /\ Len(answers) < MaxErrors
      /\ Track(answer[2])
      /\ answers' = Append(answers, [status |-> answer[1], code |-> answer[2],
                                     at |-> clock, run |-> started])
      /\ UNCHANGED <<clock, started>>

(* reset, or a restart of the process.                                     *)
Reset ==
  /\ started < MaxStarts
  /\ started' = started + 1
  /\ store' = [c \in Codes |-> {}]
  /\ alerted' = {}
  /\ UNCHANGED <<clock, answers, alerts>>

TimePasses ==
  /\ clock < MaxClock
  /\ clock' = clock + 1
  /\ UNCHANGED <<store, alerted, answers, alerts, started>>

-----------------------------------------------------------------------------
(* Properties *)

(* The answers with the code of the i-th one, up to it, that lie within    *)
(* Window before it and were given by the same process.                    *)
Recurring(i) ==
  {j \in 1..i : /\ answers[j].code = answers[i].code
                /\ answers[j].run = answers[i].run
                /\ answers[j].at >= answers[i].at - Window}

Burst(i) == Cardinality(Recurring(i)) >= Threshold

(* The answers before the i-th with its code and of its process.           *)
Before(i) ==
  {j \in 1 .. i - 1 : answers[j].code = answers[i].code /\ answers[j].run = answers[i].run}

Highest(S) == CHOOSE j \in S : \A k \in S : k <= j

(* The i-th answer is the first of its code and process, or the one before *)
(* was not within a burst.                                                 *)
Quiet(i) == Before(i) = {} \/ ~Burst(Highest(Before(i)))

(* An alert is logged exactly where a burst begins, which is per burst and *)
(* not, as a comment has it, per window: every burst of a code             *)
(* is reported, also a later one, and none is reported twice, however time *)
(* passes between errors, although the tracker prunes and caps what it     *)
(* remembers and looks at the flag only when it is told of an error.       *)
AlertsWhereBurstsBegin ==
  alerts = {i \in DOMAIN answers : Burst(i) /\ Quiet(i)}

(* The code's comment, error-recurrence-tracker.service.ts:170:            *)
(* "De-duplicated: only logs once per window per code".  It says that no   *)
(* window holds two alerts of a code.  A hit that finds the count below    *)
(* the threshold clears the flag, and the hits it shares a window with may *)
(* raise the next alert within a window of the last.                       *)
AlertOncePerWindow ==
  \A i, j \in alerts :
    (i < j /\ answers[i].code = answers[j].code /\ answers[i].run = answers[j].run) =>
      answers[j].at - answers[i].at > Window
=============================================================================
