------------------------------- MODULE Replay -------------------------------
(***************************************************************************)
(* Request ids: clients of the control socket, handle_connection and       *)
(* dispatch of daemon.rs, and the replay of stored responses (runtime.rs,  *)
(* store.rs).  A client may repeat a request whose answer it never saw,    *)
(* with the same id, or use an id again for something else; answers get    *)
(* lost, and the daemon may be killed between any two steps.               *)
(*                                                                         *)
(* The operation itself (module Runtime) is abstracted to what the journal *)
(* says of it: refused before its operations row exists, begun, and ended  *)
(* with an outcome.  A payload stands for everything replay_matches        *)
(* compares: operation, stack, manifest, base directory, target service.   *)
(***************************************************************************)
EXTENDS Naturals

CONSTANTS
    Conns,       \* connections open at a time
    Ids,         \* request ids
    Payloads,    \* mutations a client may ask for
    NoPayload,   \* there is no operations row
    NoRequest,   \* nothing was sent
    Faults       \* the kinds of failure the environment may produce

FaultKinds == {"crash", "store", "lost"}

\* Requests that change nothing: status and logs; a rejected envelope.
Reads == {"status", "envelope"}
\* What read_request does not take for a request: a malformed or too long
\* frame, and the end of the stream.
Unreadable == {"frame", "end"}
Request == [id : Ids, body : Payloads \cup Reads \cup Unreadable]

ASSUME PayloadsAssumption ==
    /\ NoPayload \notin Payloads
    /\ (Reads \cup Unreadable) \cap Payloads = {}
ASSUME RequestAssumption == NoRequest \notin Request
ASSUME ReplayFaultsAssumption == Faults \subseteq FaultKinds

VARIABLES
    row,    \* the operations row of each id
    conn,   \* the connections
    d,      \* the daemon: position, connection served, response at hand
    acted,  \* history: how often the operation of an id took effect
    heard,  \* history: the final answers to mutations that clients received
    lapse   \* history: ids of requests for which the database failed

vars == <<row, conn, d, acted, heard, lapse>>

-----------------------------------------------------------------------------
\* Answers: an operation's own, a refusal without a row, and what replay adds.
Final == {"success", "failure", "unknown"}
Response == Final \cup {"none", "refused", "conflict", "state_store", "read",
                        "protocol_error"}

Row == [payload : Payloads \cup {NoPayload},
        outcome : {"none", "null", "success", "failure"},
        response : Response]
NoRow == [payload |-> NoPayload, outcome |-> "none", response |-> "none"]

\* left and deserted: sent and serving, but the client has gone away.
Connection == [at : {"closed", "sent", "left", "serving", "deserted",
                     "answered"},
               req : Request \cup {NoRequest}, answer : Response]
Closed == [at |-> "closed", req |-> NoRequest, answer |-> "none"]

Daemon == [pc : {"dead", "cold_start", "idle", "dispatch", "run", "act",
                 "outcome", "cache", "write"},
           conn : Conns, response : Response]

\* The request being served.
req == conn[d.conn].req

Init ==
    /\ row = [i \in Ids |-> NoRow]
    /\ conn = [c \in Conns |-> Closed]
    /\ d \in [pc : {"dead"}, conn : Conns, response : {"none"}]
    /\ acted = [i \in Ids |-> 0]
    /\ heard = {}
    /\ lapse = {}

goto(p) == d' = [d EXCEPT !.pc = p, !.response = "none"]
respond(r) == d' = [d EXCEPT !.pc = "cache", !.response = r]

\* A query or transaction for the request being served fails, or none does.
stumble == "store" \in Faults /\ lapse' = lapse \cup {req.id}
sound == UNCHANGED lapse

-----------------------------------------------------------------------------
(* Clients: send_control of cli.rs, or any program that speaks the protocol *)

\* connect, one request frame, shutdown of the write half.
Send(c) ==
    /\ d.pc # "dead"
    /\ conn[c].at = "closed"
    /\ \E r \in Request :
          conn' = [conn EXCEPT ![c] = [at |-> "sent", req |-> r,
                                       answer |-> "none"]]
    /\ UNCHANGED <<row, d, acted, heard, lapse>>

\* read_response
Receive(c) ==
    /\ conn[c].at = "answered"
    /\ heard' = IF conn[c].req.body \in Payloads /\ conn[c].answer \in Final
                THEN heard \cup {[req |-> conn[c].req,
                                  answer |-> conn[c].answer]}
                ELSE heard
    /\ conn' = [conn EXCEPT ![c] = Closed]
    /\ UNCHANGED <<row, d, acted, lapse>>

\* The client goes away; what it has sent is served all the same.
Leave(c) ==
    /\ "lost" \in Faults
    /\ \/ /\ conn[c].at = "sent"
          /\ conn' = [conn EXCEPT ![c].at = "left"]
       \/ /\ conn[c].at = "serving"
          /\ conn' = [conn EXCEPT ![c].at = "deserted"]
       \/ /\ conn[c].at = "answered"
          /\ conn' = [conn EXCEPT ![c] = Closed]
    /\ UNCHANGED <<row, d, acted, heard, lapse>>

-----------------------------------------------------------------------------
(* The daemon *)

Boot ==
    /\ d.pc = "dead"
    /\ goto("cold_start")
    /\ UNCHANGED <<row, conn, acted, heard, lapse>>

\* reconcile_cold_start gives an interrupted operation an outcome (success
\* only to a `down` that had stopped everything) and no response.
ColdStart ==
    /\ d.pc = "cold_start"
    /\ \E safe_down \in SUBSET Ids :
          row' = [i \in Ids |->
                    IF row[i].outcome # "null" THEN row[i]
                    ELSE [row[i] EXCEPT !.outcome =
                            IF i \in safe_down THEN "success" ELSE "failure"]]
    /\ goto("idle")
    /\ UNCHANGED <<conn, acted, heard, lapse>>

\* accept and read_request
Accept(c) ==
    /\ d.pc = "idle"
    /\ conn[c].at \in {"sent", "left"}
    /\ conn[c].req.body \notin Unreadable
    /\ \/ conn[c].at = "sent" /\ conn' = [conn EXCEPT ![c].at = "serving"]
       \/ conn[c].at = "left" /\ conn' = [conn EXCEPT ![c].at = "deserted"]
    /\ d' = [pc |-> "dispatch", conn |-> c, response |-> "none"]
    /\ UNCHANGED <<row, acted, heard, lapse>>

\* read_request fails: the error is answered at once and never stored; the
\* end of the stream is not answered.
Reject(c) ==
    /\ d.pc = "idle"
    /\ conn[c].at \in {"sent", "left"}
    /\ conn[c].req.body \in Unreadable
    /\ \/ /\ conn[c].at = "sent" /\ conn[c].req.body = "frame"
          /\ conn' = [conn EXCEPT ![c].at = "answered",
                                  ![c].answer = "protocol_error"]
       \/ /\ \/ conn[c].at = "left" \/ "lost" \in Faults
             \/ conn[c].req.body = "end"
          /\ conn' = [conn EXCEPT ![c] = Closed]
    /\ UNCHANGED <<row, d, acted, heard, lapse>>

\* Mutant: the id alone decides.
MutReplayMatches(r, payload) == r.payload # NoPayload

\* replay_matches on the row that operation_replay found.
replay_matches(r, payload) == r.payload = payload

\* validate_envelope, dispatch and replay_response
Dispatch ==
    /\ d.pc = "dispatch"
    /\ LET r == row[req.id]
       IN  \/ req.body = "envelope" /\ respond("protocol_error") /\ sound
           \/ req.body = "status" /\ respond("read") /\ sound
           \/ /\ req.body \in Payloads
              /\ \/ stumble /\ respond("state_store")
                 \/ r = NoRow /\ goto("run") /\ sound
                 \/ /\ r # NoRow /\ ~replay_matches(r, req.body) /\ sound
                    /\ respond("conflict")
                 \/ /\ r # NoRow /\ replay_matches(r, req.body) /\ sound
                    /\ respond(IF r.response = "none" THEN "unknown"
                               ELSE r.response)
    /\ UNCHANGED <<row, conn, acted, heard>>

\* Mutant: the row is only written with the outcome.
MutBegin(i, payload, outcome) == UNCHANGED row

\* A begin_* transaction (or record_noop_up) inserts the row, whose primary
\* key is the request id.
begin(i, payload, outcome) ==
    /\ row[i] = NoRow
    /\ row' = [row EXCEPT ![i] = [payload |-> payload, outcome |-> outcome,
                                  response |-> "none"]]

\* up, down or restart of runtime.rs up to the row of the operation: refused
\* without a row; nothing to do, which only up records; an ambiguous down,
\* which begins as a failure; or a begun operation.
Run ==
    /\ d.pc = "run"
    /\ \/ respond("refused") /\ UNCHANGED row /\ sound
       \/ begin(req.id, req.body, "success") /\ respond("success") /\ sound
       \/ begin(req.id, req.body, "failure") /\ respond("failure") /\ sound
       \/ begin(req.id, req.body, "null") /\ goto("act") /\ sound
       \/ stumble /\ respond("state_store") /\ UNCHANGED row
       \/ \* recorded, but the status for the answer cannot be read
          /\ stumble
          /\ begin(req.id, req.body, "success")
          /\ respond("state_store")
    /\ UNCHANGED <<conn, acted, heard>>

\* The engine effects of the operation.
Act ==
    /\ d.pc = "act"
    /\ acted' = [acted EXCEPT ![req.id] = IF @ = 2 THEN 2 ELSE @ + 1]
    /\ goto("outcome")
    /\ UNCHANGED <<row, conn, heard, lapse>>

\* The transaction that gives the operation its outcome, and the status read
\* for the answer.
Outcome ==
    /\ d.pc = "outcome"
    /\ \/ \E o \in {"success", "failure"} :
             /\ row' = [row EXCEPT ![req.id].outcome = o]
             /\ \/ respond(o) /\ sound
                \/ respond("state_store") /\ stumble
       \/ UNCHANGED row /\ respond("failure") /\ stumble
    /\ UNCHANGED <<conn, acted, heard>>

\* Mutants: any response is stored under the id; only an operation that is
\* still open gets a response.
MutCacheableAny(r, body) == r # NoRow
MutCacheableOpen(r, body) == r.outcome = "null" /\ replay_matches(r, body)

\* cache_response_for_request stores a response only under the row that the
\* same mutation made.
cacheable(r, body) == r # NoRow /\ replay_matches(r, body)

\* Its errors are logged and ignored.
Cache ==
    /\ d.pc = "cache"
    /\ \/ /\ cacheable(row[req.id], req.body)
          /\ row' = [row EXCEPT ![req.id].response = d.response]
          /\ sound
       \/ ~cacheable(row[req.id], req.body) /\ UNCHANGED row /\ sound
       \/ stumble /\ UNCHANGED row
    /\ d' = [d EXCEPT !.pc = "write"]
    /\ UNCHANGED <<conn, acted, heard>>

\* write_frame; the client may be gone or too slow (write timeout).
Write ==
    /\ d.pc = "write"
    /\ \/ /\ conn[d.conn].at = "serving"
          /\ conn' = [conn EXCEPT ![d.conn].at = "answered",
                                  ![d.conn].answer = d.response]
       \/ /\ conn[d.conn].at = "deserted" \/ "lost" \in Faults
          /\ conn' = [conn EXCEPT ![d.conn] = Closed]
    /\ goto("idle")
    /\ UNCHANGED <<row, acted, heard, lapse>>

\* SIGKILL: connections are reset; an answer already written can be read.
Crash ==
    /\ "crash" \in Faults
    /\ d.pc # "dead"
    /\ goto("dead")
    /\ conn' = [c \in Conns |->
                  IF conn[c].at = "answered" THEN conn[c] ELSE Closed]
    /\ UNCHANGED <<row, acted, heard, lapse>>

Next ==
    \/ \E c \in Conns : Send(c) \/ Receive(c) \/ Leave(c) \/ Accept(c)
                        \/ Reject(c)
    \/ Boot \/ ColdStart \/ Dispatch \/ Run \/ Act \/ Outcome \/ Cache
    \/ Write \/ Crash

Spec == Init /\ [][Next]_vars

-----------------------------------------------------------------------------
(* Properties *)

\* ARCHITECTURE.md: a request_id "to deduplicate retries".  However often a
\* request is repeated, and wherever the daemon was killed, its operation
\* acts on the engine at most once.
EffectOnce == \A i \in Ids : acted[i] <= 1

\* A client is told `success` only if the operation with its id and exactly
\* its payload succeeded, whatever else the id was used for.
TruthfulSuccess ==
    \A h \in heard : h.answer = "success" =>
        /\ row[h.req.id].payload = h.req.body
        /\ row[h.req.id].outcome = "success"

\* Two final answers to one request are the same, across lost answers,
\* retries, concurrent duplicates and crashes: the response is durable before
\* it is sent.  Only a failure of the database for that very id excepts it.
AnswersAgree ==
    \A g, h \in heard :
        g.req = h.req /\ g.req.id \notin lapse => g.answer = h.answer

\* A retry gets the first answer once more: a stored response is never
\* replaced by another one, unless the database failed for that very id.
CachedResponseStable ==
    [][\A i \in Ids :
          row[i].response # "none" /\ i \notin lapse'
             => row'[i].response = row[i].response]_vars
=============================================================================
