------------------------------------ MODULE Api ------------------------------------
(***************************************************************************)
(* What the HTTP server does with a request once it has read it: Routes    *)
(* finds its handler, and Requests runs the guards and the operation of    *)
(* the handler, among those of the other requests.                         *)
(***************************************************************************)
EXTENDS Requests

CONSTANTS
    Paths, Int32Segments, Int64Segments, UndecodableSegments   \* of Routes

VARIABLES
    asked, stage, has_lease, invoked, refusal   \* of Routes, three by other names

Dispatcher == INSTANCE Routes WITH request <- asked, phase <- stage, status <- refusal

\* The prefixes of the dispatcher and any other beginning of a path.
ASSUME PathsAssumption ==
    \A path \in Paths : path[1] \in Dispatcher!Areas \cup {"elsewhere"}

\* The words that stand where other routes have a number are none, and a number of 32
\* bits has no more than 64 (parse_positive_int32, parse_positive_int64).
ASSUME NumbersAssumption ==
    /\ Int32Segments \subseteq Int64Segments
    /\ {"list", "me", "id", "all"} \cap Int64Segments = {}

\* A request reaches the one handler of its method and path, with a connection if it
\* needs one; 405 is for paths of other methods, and a path that has a route is never
\* said to have none (http_dispatcher.cpp:42-160).
EachFindsItsRoute ==
    /\ Dispatcher!NoRouteIsShadowed
    /\ Dispatcher!EveryRequestFindsItsRoute
    /\ Dispatcher!HandlersHaveTheirConnection
===============================================================================
