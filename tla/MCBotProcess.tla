----------------------------- MODULE MCBotProcess -----------------------------
(* Two runs, and one other call for the two threads of the pool.              *)
EXTENDS BotProcess

MCRuns == {"scheduled", "manual"}
MCJobs == (MCRuns \X {"save", "publish"}) \cup {<<"report", "work">>}
=============================================================================
