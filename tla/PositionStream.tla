---------------------------- MODULE PositionStream ----------------------------
(***************************************************************************)
(* GET /positions: the handler (api/internal/position/position.go) and the *)
(* stream of rows out of CrateDB (api/internal/cratedb/cratedb.go), with a *)
(* client that polls.                                                      *)
(*                                                                         *)
(* Requests share nothing but the rows they read, and a client polls one   *)
(* request at a time, so one request is in progress.  It is refused with   *)
(* 400, 401 or 403 before any of this, or it names a period and some       *)
(* trackers.  A row is its tracker, its time_index and whether it has a    *)
(* position: the rows QuantumLeap makes for metadata have none.            *)
(*                                                                         *)
(* The first byte of the body sends status 200, and the rows go out in     *)
(* lines written whole; what is in the buffers of the server is lost when  *)
(* the server is.                                                          *)
(***************************************************************************)
EXTENDS Integers, FiniteSets

CONSTANTS
    Trackers,      \* IMEIs of the tenant
    Watched,       \* those the polling client asks for
    MaxClock,      \* bound on time
    MaxMeasures    \* bound on the rows of the table

ASSUME StreamAssumption ==
    /\ Watched \subseteq Trackers
    /\ MaxClock \in Nat /\ MaxMeasures \in Nat

VARIABLES
    clock,
    measures,    \* the table "mt<tenant>"."etgpstracker"
    ask,         \* what the request asks for, and whether it is a poll
    at,          \* where it is
    rest,        \* rows of the result that are still to be read
    sent,        \* rows whose lines are in the response
    tail,        \* what comes after them: nothing, a part of a line, an error
    httpStatus,  \* 0 until it is sent
    broken,      \* the response ended without its end
    lost,        \* rows of the result that are not in it
    brought,     \* rows that polls have brought,
    broughtTo    \*   the latest time_index of them

responseVars == <<rest, sent, tail, httpStatus, broken, lost>>
clientVars == <<brought, broughtTo>>
streamVars == <<clock, measures, ask, at, responseVars, clientVars>>

Rows == [tracker : Trackers, time : 0..MaxClock, fix : BOOLEAN]

StreamTypeOK ==
    /\ clock \in 0..MaxClock
    /\ measures \subseteq Rows
    /\ ask \in [from : 0..MaxClock, to : 0..MaxClock, trackers : SUBSET Trackers, poll : BOOLEAN]
    /\ at \in {"idle", "columns", "query", "rows", "ended"}
    /\ rest \subseteq Rows /\ sent \subseteq Rows /\ lost \subseteq Rows
    /\ tail \in {"nothing", "part", "error"}
    /\ httpStatus \in {0, 200, 500} /\ broken \in BOOLEAN
    /\ brought \subseteq Rows /\ broughtTo \in 0..clock

StreamInit ==
    /\ clock = 0 /\ measures = {}
    /\ ask = [from |-> 0, to |-> 0, trackers |-> {}, poll |-> FALSE]
    /\ at = "idle"
    /\ rest = {} /\ sent = {} /\ lost = {}
    /\ tail = "nothing" /\ httpStatus = 0 /\ broken = FALSE
    /\ brought = {} /\ broughtTo = 0

-------------------------------------------------------------------------------
(* The table *)

TimePasses ==
    /\ clock < MaxClock
    /\ clock' = clock + 1
    /\ UNCHANGED <<measures, ask, at, responseVars, clientVars>>

\* QuantumLeap stores a row under the time at which it can be read.
Measure(d, fix) ==
    /\ Cardinality(measures) < MaxMeasures
    /\ measures' = measures \cup {[tracker |-> d, time |-> clock, fix |-> fix]}
    /\ UNCHANGED <<clock, ask, at, responseVars, clientVars>>

-------------------------------------------------------------------------------
(* HandleGet *)

\* A request that passes the checks.
Ask(request) ==
    /\ at = "idle"
    /\ request.to > request.from
    /\ ask' = request /\ at' = "columns"
    /\ rest' = {} /\ sent' = {} /\ tail' = "nothing" /\ httpStatus' = 0 /\ broken' = FALSE
    /\ lost' = {}
    /\ UNCHANGED <<clock, measures, clientVars>>

\* One day of one vehicle, or any period of any of them.
AskPeriod(from, to, D) == Ask([from |-> from, to |-> to, trackers |-> D, poll |-> FALSE])

\* From the latest row on, until now.
PollPositions == Ask([from |-> broughtTo, to |-> clock, trackers |-> Watched, poll |-> TRUE])

\* The response ends here with this status and tail, without the rows missing.
Ends(code, end, missing) ==
    /\ at' = "ended" /\ httpStatus' = code /\ tail' = end /\ lost' = missing

\* An error before the first row is 500.
Fails ==
    /\ Ends(500, "error", {})
    /\ UNCHANGED <<clock, measures, ask, rest, sent, broken, clientVars>>

\* StreamPositions looks for the table, which is there once it has had a row.
LookColumns ==
    /\ at = "columns"
    /\ \/ /\ measures = {}
          /\ Ends(200, "nothing", {})
          /\ UNCHANGED <<clock, measures, ask, rest, sent, broken, clientVars>>
       \/ /\ measures # {}
          /\ at' = "query"
          /\ UNCHANGED <<clock, measures, ask, responseVars, clientVars>>
       \/ Fails

\* Mutant: the period does not include its start.
BuggySelected(x) ==
    /\ x.fix /\ x.tracker \in ask.trackers
    /\ ask.from < x.time /\ x.time <= ask.to

\* WHERE time_index BETWEEN from AND to, of the trackers, with a position.
Selected(x) ==
    /\ x.fix /\ x.tracker \in ask.trackers
    /\ ask.from <= x.time /\ x.time <= ask.to

RunQuery ==
    /\ at = "query"
    /\ \/ /\ rest' = {x \in measures : Selected(x)}
          /\ at' = "rows"
          /\ UNCHANGED <<clock, measures, ask, sent, tail, httpStatus, broken, lost, clientVars>>
       \/ Fails

\* The next row by time_index is scanned and encoded.
SendRow(x) ==
    /\ at = "rows" /\ x \in rest
    /\ \A y \in rest : x.time <= y.time
    /\ rest' = rest \ {x} /\ sent' = sent \cup {x} /\ httpStatus' = 200
    /\ UNCHANGED <<clock, measures, ask, at, tail, broken, lost, clientVars>>

EndOfRows ==
    /\ at = "rows" /\ rest = {}
    /\ Ends(200, "nothing", {})
    /\ UNCHANGED <<clock, measures, ask, rest, sent, broken, clientVars>>

\* Mutant: an error that comes before the first row is taken for one after it.
BuggyCursorFails ==
    /\ at = "rows"
    /\ Ends(200, "nothing", rest)
    /\ UNCHANGED <<clock, measures, ask, rest, sent, broken, clientVars>>

\* A row cannot be scanned or the connection to CrateDB breaks.  Once committed
\* the handler returns without a word, and the server ends the response.
CursorFails ==
    /\ at = "rows"
    /\ IF sent = {} THEN Ends(500, "error", rest) ELSE Ends(200, "nothing", rest)
    /\ UNCHANGED <<clock, measures, ask, rest, sent, broken, clientVars>>

\* The rows of R that a reader has who has brought some way.
Prefix(S, R) == S \subseteq R /\ \A x \in S, y \in R \ S : x.time <= y.time

\* The server or the connection dies, anywhere in a line.
Break ==
    /\ at \in {"columns", "query", "rows"}
    /\ \E S \in SUBSET sent, end \in {"nothing", "part"} :
          /\ Prefix(S, sent)
          /\ sent' = S
          /\ Ends(httpStatus, end, rest \cup (sent \ S))
    /\ broken' = TRUE
    /\ UNCHANGED <<clock, measures, ask, rest, clientVars>>

-------------------------------------------------------------------------------
(* The clients *)

\* Mutant: the next poll starts after the latest row.
BuggyLearns(R) ==
    /\ brought' = brought \cup R
    /\ \/ R = {} /\ broughtTo' = broughtTo
       \/ \E x \in R : (\A y \in R : y.time <= x.time) /\ broughtTo' = x.time + 1

\* The poll has brought the rows R: what came before the latest of them,
\* it need not ask for again.
Learns(R) ==
    /\ brought' = brought \cup R
    /\ \/ R = {} /\ broughtTo' = broughtTo
       \/ \E x \in R : (\A y \in R : y.time <= x.time) /\ broughtTo' = x.time

\* A client keeps the lines it could parse, or nothing if the response broke.
TakePoll ==
    /\ at = "ended" /\ ask.poll
    /\ at' = "idle"
    /\ \/ httpStatus = 200 /\ Learns(sent)
       \/ (httpStatus # 200 \/ broken) /\ Learns({})
    /\ UNCHANGED <<clock, measures, ask, responseVars>>

\* A client that does not poll has its answer, or either goes away before.
Leave ==
    /\ at # "idle" /\ (at = "ended" => ~ask.poll)
    /\ at' = "idle"
    /\ UNCHANGED <<clock, measures, ask, responseVars, clientVars>>

-------------------------------------------------------------------------------

StreamNext ==
    \/ TimePasses
    \/ \E d \in Trackers, fix \in BOOLEAN : Measure(d, fix)
    \/ \E from, to \in 0..MaxClock, d \in Trackers : AskPeriod(from, to, {d})
    \/ PollPositions \/ LookColumns \/ RunQuery
    \/ \E x \in rest : SendRow(x)
    \/ EndOfRows \/ CursorFails \/ Break
    \/ TakePoll \/ Leave

StreamSpec == StreamInit /\ [][StreamNext]_streamVars

-------------------------------------------------------------------------------
(* Properties *)

\* A client that polls as API.md:338 tells it to, from the latest time_index it
\* has seen, has every position before that, though responses end early, break
\* or fail, and rows arrive while others of the same moment have been read: the
\* period includes its start, and the rows come in the order of time.
PollingMissesNothing ==
    \A x \in measures : x.fix /\ x.tracker \in Watched /\ x.time < broughtTo => x \in brought

\* A response that ends in order, without rows and without an error, means that
\* there are none, and an error is never told after rows: the client need look
\* at nothing but the status to draw an empty day (cratedb.go:95-128,
\* position.go:56-62).
EmptyMeansNone ==
    at = "ended" /\ ~broken =>
        /\ httpStatus = 200 /\ sent = {} => lost = {}
        /\ httpStatus = 500 <=> tail = "error"
        /\ tail = "error" => sent = {}

\* What API.md:336 says of errors after the first row: clients can tell a partial
\* response by parsing it.
CutIsDetected ==
    at = "ended" /\ httpStatus = 200 /\ ~broken /\ lost # {} => tail # "nothing"
===============================================================================
