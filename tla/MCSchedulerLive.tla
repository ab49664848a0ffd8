--------------------------- MODULE MCSchedulerLive ---------------------------
(***************************************************************************)
(* A job whose inserts may fail forever does not keep the others from      *)
(* being scheduled.  The scheduler restarts at most MaxStops times.        *)
(***************************************************************************)
EXTENDS Scheduler

CONSTANTS Sick,        \* jobs whose inserts may fail again and again
          MaxStops     \* bound: restarts

VARIABLE stops

liveVars == <<vars, stops>>

\* The jobs have just been created.
LiveInit ==
    /\ clock = Interval + 1
    /\ job \in [Job -> [st : {"enabled"}, created : {clock}, plan : Plans]]
    /\ slots = {} /\ owed = {}
    /\ sch = [s \in Sched |-> Stopped]
    /\ stops = 0

Run(s) ==
    \/ Start(s) \/ BeginTick(s) \/ ReadPage(s) \/ ReadPageFails(s) \/ EndPage(s)
    \/ \E r \in sch[s].todo, lookup \in BOOLEAN : StartJob(s, r, lookup)
    \/ InsertSlot(s)
    \/ \E stored \in BOOLEAN : InsertFails(s, stored)

LiveNext ==
    \/ /\ \/ Advance
          \/ \E s \in Sched : Run(s)
       /\ UNCHANGED stops
    \/ \E s \in Sched : stops < MaxStops /\ Stop(s) /\ stops' = stops + 1

\* A running scheduler goes on; reading a given page, looking up a healthy
\* job and inserting a given slot of it do not fail every time they are tried.
LiveSpec ==
    /\ LiveInit /\ [][LiveNext]_liveVars
    /\ \A s \in Sched :
        /\ WF_liveVars(Run(s) /\ UNCHANGED stops)
        /\ \A id \in Job \union {0} :
              SF_liveVars(sch[s].after = id /\ ReadPage(s) /\ UNCHANGED stops)
        /\ \A j \in Job \ Sick :
            /\ SF_liveVars((\E r \in sch[s].todo : r.id = j /\ StartJob(s, r, TRUE))
                              /\ UNCHANGED stops)
            /\ \A t \in UNION Plans :
                  SF_liveVars(sch[s].cur.id = j /\ sch[s].t = t /\ InsertSlot(s)
                                 /\ UNCHANGED stops)

\* Every slot owed to a healthy job is inserted in the end, although sick jobs
\* hold the shared cursor back ("duplicate prefixes cannot consume its catch-up
\* cap and starve new slots", windowStart).
EventuallyInserted ==
    \A j \in Job \ Sick : \A t \in UNION Plans : <<j, t>> \in owed ~> <<j, t>> \in slots

=============================================================================
