---------------------------- MODULE TaskBoard ----------------------------
(***************************************************************************)
(* What the background-task queue promises to the application: a posted    *)
(* task is handed to one runner, is run at most once, and a task that was  *)
(* handed out never goes back to waiting.  Delivery is at most once, not   *)
(* at least once: a task may be dropped at any point after it was posted.  *)
(***************************************************************************)
CONSTANT Tasks

VARIABLE job   \* job[t]: how far task t has come

Stages == {"absent", "waiting", "taken", "running", "ended",
           "completed", "exited", "dropped"}

Move(t, from, to) == job[t] = from /\ job' = [job EXCEPT ![t] = to]

Init == job = [t \in Tasks |-> "absent"]

Post(t)    == Move(t, "absent", "waiting")
Take(t)    == Move(t, "waiting", "taken")
Start(t)   == Move(t, "taken", "running")
End(t)     == Move(t, "running", "ended")
Record(t)  == \E s \in {"completed", "exited"} : Move(t, "ended", s)
Drop(t)    == \E s \in {"waiting", "taken", "running", "ended"} : Move(t, s, "dropped")

Next == \E t \in Tasks :
          Post(t) \/ Take(t) \/ Start(t) \/ End(t) \/ Record(t) \/ Drop(t)

Spec == Init /\ [][Next]_job
==========================================================================
