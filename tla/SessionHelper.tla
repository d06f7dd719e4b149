--------------------------- MODULE SessionHelper ---------------------------
(***************************************************************************)
(* What one session helper promises to the service that started it, with   *)
(* none of the frames, goroutines and locks it takes: the service keeps it *)
(* only after its runtime has begun to serve, it ends by itself only after *)
(* the runtime has ended, and a clean end is the answer to a STOP.         *)
(***************************************************************************)
VARIABLES
  work,      \* the runtime of the helper: "starting", "serving", "ended"
  announced, \* the service knows that the helper is ready
  hold,      \* the service: "await", "held", "released", then "asked" if it
             \* has written STOP
  exit       \* "running", the exit code "0" or "1", or "killed"

hvars == <<work, announced, hold, exit>>

Running == exit = "running"

HInit ==
  /\ work = "starting"
  /\ announced = FALSE
  /\ hold = "await"
  /\ exit = "running"

(* The runtime colors the keyboard and follows the layout.                 *)
Serves ==
  /\ Running /\ work = "starting"
  /\ work' = "serving"
  /\ UNCHANGED <<announced, hold, exit>>

(* The runtime has given back all it had, or its start has failed.         *)
Ends ==
  /\ Running /\ work # "ended"
  /\ work' = "ended"
  /\ UNCHANGED <<announced, hold, exit>>

(* The news may come late, never early.                                    *)
Announces ==
  /\ work # "starting"
  /\ announced' = TRUE
  /\ UNCHANGED <<work, hold, exit>>

Keeps ==
  /\ hold = "await" /\ announced
  /\ hold' = "held"
  /\ UNCHANGED <<work, announced, exit>>

(* The service has no more use for the helper, or sees it gone, or dies.   *)
Releases ==
  /\ hold \in {"await", "held"}
  /\ hold' = "released"
  /\ UNCHANGED <<work, announced, exit>>

Asks ==
  /\ Running /\ hold = "released"
  /\ hold' = "asked"
  /\ UNCHANGED <<work, announced, exit>>

Exits(code) ==
  /\ Running /\ work = "ended"
  /\ code = "0" => hold = "asked"
  /\ exit' = code
  /\ UNCHANGED <<work, announced, hold>>

(* TerminateProcess, of a helper that was released: nothing follows it.    *)
Terminates ==
  /\ Running /\ hold \in {"released", "asked"}
  /\ exit' = "killed"
  /\ UNCHANGED <<work, announced, hold>>

HNext ==
  \/ Serves
  \/ Ends
  \/ Announces
  \/ Keeps
  \/ Releases
  \/ Asks
  \/ \E code \in {"0", "1"} : Exits(code)
  \/ Terminates

HSpec == HInit /\ [][HNext]_hvars
=============================================================================
