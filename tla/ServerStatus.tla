---------------------------- MODULE ServerStatus ----------------------------
(***************************************************************************)
(* The counters of the ServerStatus singleton (server_status.h/.cc) as a   *)
(* value, and the effect of one undisturbed insertRecord on it.  The code  *)
(* takes no lock: what concurrent calls do to the counters is the subject  *)
(* of module StatusRace.                                                   *)
(*                                                                         *)
(* A std::map counter that has no entry yet reads as 0, so the maps are    *)
(* total functions here.                                                   *)
(***************************************************************************)
EXTENDS Naturals

CONSTANT Uris        \* the URIs clients ask for

\* The code keys every unsuccessful response under one fixed text.
Unsuccessful == "uri with unsuccessful responses"

ASSUME UrisAssumption == Unsuccessful \notin Uris

VisitKeys == Uris \cup {Unsuccessful}

StatusCodes == {"200", "400", "404", "500"}

\* Mutant: 404 is not listed.
responseToString_NoNotFound(response_code) ==
  CASE response_code = 200 -> "200"
    [] response_code = 400 -> "400"
    [] OTHER -> "500"

(***************************************************************************)
(* Every code but 200, 400 and 404 is shown as 500: none (0) included.     *)
(***************************************************************************)
responseToString(response_code) ==
  CASE response_code = 200 -> "200"
    [] response_code = 400 -> "400"
    [] response_code = 404 -> "404"
    [] OTHER -> "500"

VisitKey(uri, response_code) ==
  IF response_code = 200 THEN uri ELSE Unsuccessful

StatusType ==
  [uri_visit_count: [VisitKeys -> Nat],
   status_code_count: [StatusCodes -> Nat],
   total_visit: Nat]

InitialStatus ==
  [uri_visit_count |-> [k \in VisitKeys |-> 0],
   status_code_count |-> [c \in StatusCodes |-> 0],
   total_visit |-> 0]

insertRecord(s, uri, response_code) ==
  [uri_visit_count |->
     [s.uri_visit_count EXCEPT ![VisitKey(uri, response_code)] = @ + 1],
   status_code_count |->
     [s.status_code_count EXCEPT ![responseToString(response_code)] = @ + 1],
   total_visit |-> s.total_visit + 1]
=============================================================================
