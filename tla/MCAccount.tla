----------------------------- MODULE MCAccount ------------------------------
(* Three parts that keep accounts in files of their own: the pilot, the       *)
(* reader of the venue's account, whose nonce file must stay in step, and the *)
(* benchmark with its results file.  One of them is at work in each           *)
(* behaviour.  The last two may rest at any time; the pilot must always have  *)
(* a step.                                                                    *)
EXTENDS MCPilot, PrivateReader, BenchRun

VARIABLE part

(* Credentials of every kind, an endpoint that is not allowed, and answers   *)
(* with a text or a number where a text is due.                              *)
Creds(k, s, f) == [environ |-> [key |-> k, secret |-> s], file |-> [state |-> f, key |-> "good", secret |-> "good"]]
MCEnvironments ==
    {Creds("good", "absent", "readable"), Creds("absent", "absent", "readable"), Creds("good", "bad", "readable"),
     Creds("absent", "absent", "credentials_missing"), [Creds("absent", "absent", "readable") EXCEPT !.file.secret = "empty"]}
Ask(e, p) == [endpoint |-> e, parameters |-> p]
MCRequests == {Ask("Balance", <<>>), Ask("QueryOrders", [trades |-> "bool"]), Ask("AddOrder", <<>>)}
Answered(s, e, r) == [status |-> s, size |-> 1, body |-> "object", errors |-> e, result |-> r]
MCAnswers(e) ==
    {Answered(200, {}, [amount |-> "text"]), Answered(200, {}, [amount |-> "number"]),
     Answered(200, {"WARNING", "RATE_LIMITED", "PERMISSION_DENIED"}, <<>>), Answered(503, {}, <<>>)}

(* The benchmark: probes that answer or exhaust the machine, a cold call    *)
(* that is answered badly or finds the server down.                         *)
Case(id, c, l) == [id |-> id, category |-> c, labelled |-> l]
MCDevelopment == <<Case(1, 1, FALSE), Case(2, 1, TRUE), Case(3, 2, FALSE)>>
MCHoldout == <<Case(4, 1, TRUE), Case(5, 1, FALSE)>>
Reply(f, r, t) ==
    [bound |-> 1, budget |-> 2, resources |-> r, failure |-> f, tokens |-> 1, cap |-> 1, scan |-> 1, scan_budget |-> 1, invades |-> FALSE,
     parses |-> TRUE, cited |-> {1}, evidence |-> {1, 2}, seconds |-> t, memory |-> 1]
Down == Reply("unavailable", "fine", 1)
MCReplies(block) ==
    CASE block = "probe" -> {Reply("none", "fine", 2), [Down EXCEPT !.resources = "oom"]}
      [] block = "cold" -> {[Reply("none", "fine", 1) EXCEPT !.parses = FALSE], Down}
      [] OTHER -> {Reply("none", "fine", 1)}
MCOthers == <<"m2", "m3">>

BenchIdle ==
    results = EmptyFile /\ freeze = <<>> /\ server = <<>> /\ runner = Gone /\ starts = 0 /\ faults = 0

ReaderIdle ==
    /\ reader = NotOpen /\ nonce_file = NoFile /\ wall = 1 /\ caller = [c \in Callers |-> Waiting]
    /\ request_lock = {} /\ wire = {} /\ seen = 0 /\ environment = <<>> /\ reader_faults = 0

MCAccountSymmetry == Permutations(Events) \cup Permutations(Callers)

MCAccountInit ==
    /\ part \in {"pilot", "reader", "bench"}
    /\ PilotInit
    /\ IF part = "reader" THEN ReaderInit ELSE ReaderIdle
    /\ IF part = "bench" THEN BenchInit ELSE BenchIdle

MCAccountNext ==
    /\ UNCHANGED part
    /\ IF part = "pilot" THEN PilotNext ELSE UNCHANGED pilotVars
    /\ IF part = "reader" THEN ReaderNext \/ UNCHANGED readerVars ELSE UNCHANGED readerVars
    /\ IF part = "bench" THEN BenchNext \/ UNCHANGED benchVars ELSE UNCHANGED benchVars

MCAccountSpec == MCAccountInit /\ [][MCAccountNext]_<<part, pilotVars, readerVars, benchVars>>
=============================================================================
