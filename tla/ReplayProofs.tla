---------------------------- MODULE ReplayProofs ----------------------------
(***************************************************************************)
(* The four properties of module Replay, for any number of connections,    *)
(* request ids and payloads and every set of faults.                       *)
(*                                                                         *)
(* The inductive invariant says what the row of a request id means at each *)
(* position of the daemon's thread, and what the row owes to every answer  *)
(* that is being written, waits to be read or has been heard.              *)
(***************************************************************************)
EXTENDS Replay, TLAPS

TypeInv ==
    /\ row \in [Ids -> Row]
    /\ conn \in [Conns -> Connection]
    /\ d \in Daemon
    /\ acted \in [Ids -> 0..2]
    /\ heard \subseteq [req : [id : Ids, body : Payloads], answer : Final]
    /\ lapse \subseteq Ids

\* What the row of r's id owes to a client that got answer a to r.
Honest(r, a) ==
    r.body \in Payloads /\ a \in Final =>
        /\ row[r.id].payload = r.body
        /\ a = "success" => row[r.id].outcome = "success"
Settled(r, a) ==
    r.body \in Payloads /\ a \in Final /\ r.id \notin lapse =>
        row[r.id].response = a

RowInv ==
    \A i \in Ids :
        /\ row[i].payload = NoPayload => row[i] = NoRow /\ acted[i] = 0
        /\ row[i].response = "success" => row[i].outcome = "success"
        /\ acted[i] <= 1

ServingPC == {"dispatch", "run", "act", "outcome", "cache", "write"}

\* The row of an operation that has begun and not ended.
Begun == [payload |-> req.body, outcome |-> "null", response |-> "none"]

DaemonInv ==
    d.pc \in ServingPC =>
        /\ conn[d.conn].at \in {"serving", "deserted"}
        /\ req \in Request
        /\ d.pc \in {"run", "act", "outcome"} => req.body \in Payloads
        /\ d.pc = "run" => row[req.id] = NoRow
        /\ d.pc = "act" => row[req.id] = Begun /\ acted[req.id] = 0
        /\ d.pc = "outcome" => row[req.id] = Begun
        /\ d.pc \in {"cache", "write"} => Honest(req, d.response)
        /\ d.pc = "write" => Settled(req, d.response)
        /\ d.pc = "cache" =>
              /\ d.response # "none"
              /\ row[req.id].payload = req.body /\ row[req.id].response # "none"
                 /\ req.id \notin lapse
                 => d.response = row[req.id].response

ConnInv ==
    \A c \in Conns :
        /\ conn[c].at # "closed" => conn[c].req \in Request
        /\ conn[c].at = "answered" =>
              /\ Honest(conn[c].req, conn[c].answer)
              /\ Settled(conn[c].req, conn[c].answer)

HeardInv ==
    \A h \in heard : Honest(h.req, h.answer) /\ Settled(h.req, h.answer)

Inv == TypeInv /\ RowInv /\ DaemonInv /\ ConnInv /\ HeardInv

-----------------------------------------------------------------------------
(* Rows only ever gain: what an answer may rest on is never taken back *)

RowsKept ==
    /\ lapse \subseteq lapse'
    /\ \A i \in Ids :
          /\ row[i].payload # NoPayload => row'[i].payload = row[i].payload
          /\ row[i].outcome = "success" => row'[i].outcome = "success"
          /\ row[i].response # "none" /\ i \notin lapse'
             => row'[i].response = row[i].response

\* While rows only gain, the answers that clients heard stay honest.
LEMMA HeardKept ==
    ASSUME Inv, RowsKept, UNCHANGED heard
    PROVE  HeardInv'
<1> SUFFICES ASSUME NEW h \in heard
             PROVE  Honest(h.req, h.answer)' /\ Settled(h.req, h.answer)'
  BY DEF HeardInv
<1>1. h.req.id \in Ids /\ h.answer \in Final
  BY DEF Inv, TypeInv
<1>2. Honest(h.req, h.answer) /\ Settled(h.req, h.answer)
  BY DEF Inv, HeardInv
<1> QED
  BY <1>1, <1>2, PayloadsAssumption DEF RowsKept, Honest, Settled, Final

\* The same for answers that wait to be read.
LEMMA ConnKept ==
    ASSUME Inv, RowsKept, NEW c \in Conns, conn'[c] = conn[c]
    PROVE  /\ conn'[c].at # "closed" => conn'[c].req \in Request
           /\ conn'[c].at = "answered" =>
                 /\ Honest(conn[c].req, conn[c].answer)'
                 /\ Settled(conn[c].req, conn[c].answer)'
<1>1. conn[c].at # "closed" => conn[c].req \in Request
  BY DEF Inv, ConnInv
<1>2. conn[c].at = "answered" => /\ Honest(conn[c].req, conn[c].answer)
                                 /\ Settled(conn[c].req, conn[c].answer)
  BY DEF Inv, ConnInv
<1> QED
  BY <1>1, <1>2, PayloadsAssumption DEF RowsKept, Honest, Settled, Final, Request

-----------------------------------------------------------------------------
(* Steps of clients, and those by which the daemon takes or refuses a request *)

\* A client connects and sends a request.
LEMMA SendInv ==
    ASSUME Inv, NEW k \in Conns, Send(k) PROVE Inv' /\ RowsKept
<1> USE PayloadsAssumption
<1>1. RowsKept /\ RowInv'
  BY DEF RowsKept, Inv, RowInv, Send
<1>2. TypeInv'
  BY DEF Inv, TypeInv, Send, Connection, Response
<1>3. DaemonInv'
  BY DEF Inv, TypeInv, DaemonInv, Send, ServingPC, req, Begun, Honest, Settled,
         Daemon
<1>4. ConnInv'
  BY <1>1, ConnKept DEF Inv, TypeInv, ConnInv, Send
<1>5. HeardInv'
  BY <1>1, HeardKept DEF Send
<1> QED BY <1>1, <1>2, <1>3, <1>4, <1>5 DEF Inv

\* A client reads its answer.
LEMMA ReceiveInv ==
    ASSUME Inv, NEW k \in Conns, Receive(k) PROVE Inv' /\ RowsKept
<1> USE PayloadsAssumption
<1>1. RowsKept /\ RowInv'
  BY DEF RowsKept, Inv, RowInv, Receive
<1>2. conn[k].req \in Request /\ conn[k] \in Connection
  BY DEF Inv, TypeInv, ConnInv, Receive
<1>3. TypeInv'
  <2>1. conn' \in [Conns -> Connection]
    BY <1>2 DEF Inv, TypeInv, Receive, Connection, Response, Closed
  <2>2. heard' \subseteq [req : [id : Ids, body : Payloads], answer : Final]
    <3>1. conn[k].req.body \in Payloads =>
             conn[k].req \in [id : Ids, body : Payloads]
      BY <1>2 DEF Request
    <3> QED BY <1>2, <3>1 DEF Inv, TypeInv, Receive
  <2> QED BY <2>1, <2>2 DEF Inv, TypeInv, Receive
<1>4. DaemonInv'
  BY DEF Inv, TypeInv, DaemonInv, Receive, ServingPC, req, Begun, Honest,
         Settled, Daemon
<1>5. ConnInv'
  BY <1>1, ConnKept DEF Inv, TypeInv, ConnInv, Receive, Closed
<1>6. HeardInv'
  <2>1. Honest(conn[k].req, conn[k].answer) /\ Settled(conn[k].req, conn[k].answer)
    BY DEF Inv, ConnInv, Receive
  <2> QED
    BY <2>1 DEF Inv, HeardInv, Receive, Honest, Settled
<1> QED BY <1>1, <1>3, <1>4, <1>5, <1>6 DEF Inv

\* A client goes away.
LEMMA LeaveInv ==
    ASSUME Inv, NEW k \in Conns, Leave(k) PROVE Inv' /\ RowsKept
<1> USE PayloadsAssumption
<1>1. RowsKept /\ RowInv'
  BY DEF RowsKept, Inv, RowInv, Leave
<1>2. conn[k] \in Connection /\ conn[k].req \in Request
  BY DEF Inv, TypeInv, ConnInv, Leave
<1>3. TypeInv'
  BY <1>2 DEF Inv, TypeInv, Leave, Connection, Response, Closed
<1>4. DaemonInv'
  <2> SUFFICES ASSUME d.pc \in ServingPC
               PROVE  DaemonInv'
    BY DEF DaemonInv, Leave
  <2>1. DaemonInv /\ conn[d.conn].at \in {"serving", "deserted"}
    BY DEF Inv, DaemonInv
  <2>2. conn \in [Conns -> Connection] /\ d.conn \in Conns
    BY DEF Inv, TypeInv, Daemon
  <2>3. /\ conn'[d.conn].at \in {"serving", "deserted"}
        /\ conn'[d.conn].req = conn[d.conn].req
    BY <1>2, <2>1, <2>2 DEF Leave, Connection
  <2>4. req' = req /\ UNCHANGED <<row, d, acted, lapse>>
    BY <2>3 DEF req, Leave
  <2> QED
    BY <2>1, <2>3, <2>4 DEF DaemonInv, Begun, Honest, Settled
<1>5. ConnInv'
  BY <1>1, <1>2, ConnKept DEF Inv, TypeInv, ConnInv, Leave, Closed, Connection
<1>6. HeardInv'
  BY <1>1, HeardKept DEF Leave
<1> QED BY <1>1, <1>3, <1>4, <1>5, <1>6 DEF Inv

\* The daemon takes a request.
LEMMA AcceptInv ==
    ASSUME Inv, NEW k \in Conns, Accept(k) PROVE Inv' /\ RowsKept
<1> USE PayloadsAssumption
<1>1. RowsKept /\ RowInv'
  BY DEF RowsKept, Inv, RowInv, Accept
<1>2. conn[k] \in Connection /\ conn[k].req \in Request
  BY DEF Inv, TypeInv, ConnInv, Accept
<1>3. TypeInv'
  BY <1>2 DEF Inv, TypeInv, Accept, Connection, Response, Daemon
<1>4. DaemonInv'
  BY <1>2 DEF Inv, TypeInv, DaemonInv, Accept, ServingPC, req, Connection
<1>5. ConnInv'
  BY <1>1, <1>2, ConnKept DEF Inv, TypeInv, ConnInv, Accept, Connection
<1>6. HeardInv'
  BY <1>1, HeardKept DEF Accept
<1> QED BY <1>1, <1>3, <1>4, <1>5, <1>6 DEF Inv

\* The daemon refuses what it cannot read.
LEMMA RejectInv ==
    ASSUME Inv, NEW k \in Conns, Reject(k) PROVE Inv' /\ RowsKept
<1> USE PayloadsAssumption
<1>1. RowsKept /\ RowInv'
  BY DEF RowsKept, Inv, RowInv, Reject
<1>2. conn[k] \in Connection /\ conn[k].req \in Request
  BY DEF Inv, TypeInv, ConnInv, Reject
<1>3. TypeInv'
  BY <1>2 DEF Inv, TypeInv, Reject, Connection, Response, Closed
<1>4. DaemonInv'
  <2>1. d.pc = "idle" /\ d' = d
    BY DEF Reject
  <2> QED
    BY <2>1 DEF DaemonInv, ServingPC
<1>5. ConnInv'
  <2>1. /\ conn'[k].at # "closed" => conn'[k].req \in Request
        /\ conn'[k].at = "answered" => conn'[k].answer = "protocol_error"
    <3>1. conn \in [Conns -> Connection]
      BY DEF Inv, TypeInv
    <3>2. \/ /\ conn'[k].req = conn[k].req
             /\ conn'[k].answer = "protocol_error"
          \/ conn'[k] = Closed
      BY <1>2, <3>1 DEF Reject, Connection
    <3> QED
      BY <1>2, <3>2 DEF Closed
  <2>2. "protocol_error" \notin Final
    BY DEF Final
  <2>3. \A c \in Conns : c # k => conn'[c] = conn[c]
    BY DEF Inv, TypeInv, Reject
  <2>4. ASSUME NEW c \in Conns, c # k
        PROVE  /\ conn'[c].at # "closed" => conn'[c].req \in Request
               /\ conn'[c].at = "answered" =>
                     /\ Honest(conn[c].req, conn[c].answer)'
                     /\ Settled(conn[c].req, conn[c].answer)'
    BY <1>1, <2>3, <2>4, ConnKept
  <2>5. conn'[k].at = "answered" =>
            /\ Honest(conn[k].req, conn[k].answer)'
            /\ Settled(conn[k].req, conn[k].answer)'
    BY <2>1, <2>2 DEF Honest, Settled
  <2> QED
    BY <2>1, <2>4, <2>5 DEF ConnInv
<1>6. HeardInv'
  BY <1>1, HeardKept DEF Reject
<1> QED BY <1>1, <1>3, <1>4, <1>5, <1>6 DEF Inv

-----------------------------------------------------------------------------
(* The daemon's own steps *)

\* The daemon moves on without a response.
LEMMA GotoStep ==
    ASSUME d \in Daemon, NEW p, goto(p),
           p \in {"dead", "cold_start", "idle", "dispatch", "run", "act",
                  "outcome", "cache", "write"}
    PROVE  d' \in Daemon /\ d'.pc = p /\ d'.conn = d.conn
BY DEF Daemon, goto, Response

\* A response is at hand, to be stored and written.
LEMMA RespondStep ==
    ASSUME d \in Daemon, NEW r \in Response, respond(r)
    PROVE  d' \in Daemon /\ d'.pc = "cache" /\ d'.conn = d.conn /\ d'.response = r
BY DEF Daemon, respond

\* The daemon is started.
LEMMA BootInv == ASSUME Inv, Boot PROVE Inv' /\ RowsKept
<1> USE PayloadsAssumption
<1>1. RowsKept /\ RowInv'
  BY DEF RowsKept, Inv, RowInv, Boot
<1>2. TypeInv'
  BY DEF Inv, TypeInv, Boot, goto, Daemon, Response
<1>3. DaemonInv'
  BY DEF Inv, TypeInv, DaemonInv, Boot, goto, ServingPC, Daemon
<1>4. ConnInv'
  BY <1>1, ConnKept DEF ConnInv, Boot
<1>5. HeardInv'
  BY <1>1, HeardKept DEF Boot
<1> QED BY <1>1, <1>2, <1>3, <1>4, <1>5 DEF Inv

\* Cold start gives interrupted operations an outcome and no response.
LEMMA ColdStartInv == ASSUME Inv, ColdStart PROVE Inv' /\ RowsKept
<1> USE PayloadsAssumption
<1> PICK safe_down \in SUBSET Ids :
       row' = [i \in Ids |->
                 IF row[i].outcome # "null" THEN row[i]
                 ELSE [row[i] EXCEPT !.outcome =
                         IF i \in safe_down THEN "success" ELSE "failure"]]
  BY DEF ColdStart
<1>1. \A i \in Ids : row[i] \in Row
  BY DEF Inv, TypeInv
<1>2. \A i \in Ids : /\ row'[i] \in Row
                     /\ row'[i].payload = row[i].payload
                     /\ row'[i].response = row[i].response
                     /\ row[i].outcome # "null" => row'[i] = row[i]
  BY <1>1 DEF Row
<1>3. RowsKept /\ RowInv'
  BY <1>2 DEF RowsKept, Inv, RowInv, ColdStart, NoRow
<1>4. TypeInv'
  BY <1>2 DEF Inv, TypeInv, ColdStart, goto, Daemon, Response
<1>5. DaemonInv'
  BY DEF Inv, TypeInv, DaemonInv, ColdStart, goto, ServingPC, Daemon
<1>6. ConnInv'
  BY <1>3, ConnKept DEF ConnInv, ColdStart
<1>7. HeardInv'
  BY <1>3, HeardKept DEF ColdStart
<1> QED BY <1>3, <1>4, <1>5, <1>6, <1>7 DEF Inv

\* The request is answered from the rows, or goes on to run.
LEMMA DispatchInv == ASSUME Inv, Dispatch PROVE Inv' /\ RowsKept
<1> USE PayloadsAssumption
<1>1. RowsKept /\ RowInv'
  BY DEF RowsKept, Inv, RowInv, Dispatch, stumble, sound
<1>2. /\ req \in Request /\ req.id \in Ids /\ row[req.id] \in Row
      /\ req' = req /\ d \in Daemon
      /\ conn[d.conn].at \in {"serving", "deserted"}
  <2>1. req \in Request /\ conn[d.conn].at \in {"serving", "deserted"}
    BY DEF Inv, DaemonInv, Dispatch, ServingPC
  <2>2. d'.conn = d.conn
    BY DEF Inv, TypeInv, Dispatch, respond, goto, Daemon
  <2> QED BY <2>1, <2>2 DEF Inv, TypeInv, Dispatch, req, Request
<1>3. TypeInv'
  BY <1>2 DEF Inv, TypeInv, Dispatch, respond, goto, stumble, sound, Daemon,
              Response, Row, Final
<1>4. DaemonInv'
  <2> DEFINE r == row[req.id]
  <2>1. /\ row' = row /\ conn' = conn /\ r \in Row
        /\ r.payload = NoPayload => r = NoRow
        /\ r.response = "success" => r.outcome = "success"
    BY <1>2 DEF Inv, RowInv, Dispatch
  <2>2. CASE \E a \in {"protocol_error", "read", "state_store", "conflict"} :
               respond(a) /\ (a = "conflict" => r.payload # req.body)
               /\ (a = "state_store" => req.id \in lapse')
               /\ (a \in {"protocol_error", "read"} => req.body \in Reads)
    <3>1. PICK a \in {"protocol_error", "read", "state_store", "conflict"} :
               respond(a) /\ (a = "conflict" => r.payload # req.body)
               /\ (a = "state_store" => req.id \in lapse')
               /\ (a \in {"protocol_error", "read"} => req.body \in Reads)
      BY <2>2
    <3>2. d'.pc = "cache" /\ d'.conn = d.conn /\ d'.response = a
      BY <3>1, <1>2, RespondStep DEF Response
    <3>3. a \in {"protocol_error", "read"} =>
             r.payload # req.body \/ r.response = "none"
      BY <3>1, <2>1 DEF Row, NoRow
    <3> QED BY <1>2, <2>1, <3>1, <3>2, <3>3 DEF DaemonInv, Honest, Final, Row
  <2>3. CASE /\ r # NoRow /\ r.payload = req.body /\ req.body \in Payloads
             /\ respond(IF r.response = "none" THEN "unknown" ELSE r.response)
    <3>1. /\ d'.pc = "cache" /\ d'.conn = d.conn
          /\ d'.response = IF r.response = "none" THEN "unknown" ELSE r.response
      BY <2>3, <1>2, RespondStep DEF Response, Final, Row
    <3> QED BY <1>2, <2>1, <2>3, <3>1 DEF DaemonInv, Honest, Final, Row
  <2>4. CASE req.body \in Payloads /\ r = NoRow /\ goto("run")
    <3>1. d'.pc = "run" /\ d'.conn = d.conn
      BY <2>4, <1>2, GotoStep
    <3> QED BY <1>2, <2>1, <2>4, <3>1 DEF DaemonInv
  <2> QED
    BY <2>2, <2>3, <2>4, <1>2 DEF Dispatch, stumble, replay_matches, Reads
<1>5. ConnInv'
  BY <1>1, ConnKept DEF ConnInv, Dispatch
<1>6. HeardInv'
  BY <1>1, HeardKept DEF Dispatch
<1> QED BY <1>1, <1>3, <1>4, <1>5, <1>6 DEF Inv

\* The operation is refused, recorded or begun.
LEMMA RunInv == ASSUME Inv, Run PROVE Inv' /\ RowsKept
<1> USE PayloadsAssumption
<1>1. /\ req \in Request /\ req.id \in Ids /\ req.body \in Payloads
      /\ row[req.id] = NoRow /\ acted[req.id] = 0
      /\ req' = req /\ d \in Daemon
      /\ conn[d.conn].at \in {"serving", "deserted"}
  <2>1. /\ req \in Request /\ conn[d.conn].at \in {"serving", "deserted"}
        /\ req.body \in Payloads /\ row[req.id] = NoRow
    BY DEF Inv, DaemonInv, Run, ServingPC
  <2>2. d'.conn = d.conn
    BY DEF Inv, TypeInv, Run, respond, goto, Daemon
  <2> QED BY <2>1, <2>2 DEF Inv, TypeInv, RowInv, Run, req, Request, NoRow
<1>2. \/ row' = row
      \/ \E o \in {"success", "failure", "null"} :
            row' = [row EXCEPT ![req.id] = [payload |-> req.body, outcome |-> o,
                                            response |-> "none"]]
  BY DEF Run, begin
<1>3. RowsKept
  BY <1>1, <1>2 DEF RowsKept, Inv, TypeInv, Run, stumble, sound, NoRow
<1>4. RowInv'
  BY <1>1, <1>2 DEF RowInv, Inv, TypeInv, Run
<1>5. TypeInv'
  <2>1. row' \in [Ids -> Row]
    BY <1>1, <1>2 DEF Inv, TypeInv, Row, Response
  <2>2. d' \in Daemon
    BY <1>1, RespondStep, GotoStep DEF Run, Response, Final
  <2> QED BY <1>1, <2>1, <2>2 DEF Inv, TypeInv, Run, stumble, sound
<1>6. DaemonInv'
  <2>1. CASE \E a \in {"refused", "success", "failure", "state_store"} :
               /\ respond(a)
               /\ a \in {"success", "failure"} => begin(req.id, req.body, a)
    <3>1. PICK a \in {"refused", "success", "failure", "state_store"} :
               /\ respond(a)
               /\ a \in {"success", "failure"} => begin(req.id, req.body, a)
      BY <2>1
    <3>2. d'.pc = "cache" /\ d'.conn = d.conn /\ d'.response = a
      BY <3>1, <1>1, RespondStep DEF Response, Final
    <3>3. row'[req.id].response = "none"
      BY <1>1, <1>2 DEF NoRow, Inv, TypeInv
    <3>4. a \in {"success", "failure"} =>
             row'[req.id].payload = req.body /\ row'[req.id].outcome = a
      BY <1>1, <3>1 DEF begin, Inv, TypeInv
    <3> QED
      BY <1>1, <3>1, <3>2, <3>3, <3>4 DEF DaemonInv, Honest, Final, Run
  <2>2. CASE begin(req.id, req.body, "null") /\ goto("act")
    <3>1. d'.pc = "act" /\ d'.conn = d.conn
      BY <2>2, <1>1, GotoStep
    <3>2. row'[req.id] = Begun
      BY <2>2, <1>1 DEF begin, Begun, Inv, TypeInv
    <3> QED BY <1>1, <3>1, <3>2 DEF DaemonInv, Run, Begun
  <2> QED BY <2>1, <2>2 DEF Run
<1>7. ConnInv'
  BY <1>3, ConnKept DEF ConnInv, Run
<1>8. HeardInv'
  BY <1>3, HeardKept DEF Run
<1> QED BY <1>3, <1>4, <1>5, <1>6, <1>7, <1>8 DEF Inv

\* The operation acts on the engine.
LEMMA ActInv == ASSUME Inv, Act PROVE Inv' /\ RowsKept
<1> USE PayloadsAssumption
<1>1. /\ req \in Request /\ req.id \in Ids /\ req.body \in Payloads
      /\ row[req.id] = Begun /\ acted[req.id] = 0
      /\ req' = req /\ d \in Daemon
      /\ conn[d.conn].at \in {"serving", "deserted"}
  <2>1. /\ req \in Request /\ conn[d.conn].at \in {"serving", "deserted"}
        /\ req.body \in Payloads /\ row[req.id] = Begun /\ acted[req.id] = 0
    BY DEF Inv, DaemonInv, Act, ServingPC
  <2>2. d'.conn = d.conn
    BY DEF Inv, TypeInv, Act, goto, Daemon
  <2> QED BY <2>1, <2>2 DEF Inv, TypeInv, Act, req, Request
<1>2. acted' = [acted EXCEPT ![req.id] = 1]
  BY <1>1 DEF Act, Inv, TypeInv
<1>3. RowsKept
  BY DEF RowsKept, Act
<1>4. RowInv'
  BY <1>1, <1>2 DEF RowInv, Inv, TypeInv, Act, Begun
<1>5. TypeInv'
  BY <1>1, <1>2, GotoStep DEF Inv, TypeInv, Act
<1>6. DaemonInv'
  BY <1>1 DEF Act, DaemonInv, goto, Daemon, ServingPC, Begun
<1>7. ConnInv'
  BY <1>3, ConnKept DEF ConnInv, Act
<1>8. HeardInv'
  BY <1>3, HeardKept DEF Act
<1> QED BY <1>3, <1>4, <1>5, <1>6, <1>7, <1>8 DEF Inv

\* The operation gets its outcome, or stays open when the database fails.
LEMMA OutcomeInv == ASSUME Inv, Outcome PROVE Inv' /\ RowsKept
<1> USE PayloadsAssumption
<1>1. /\ req \in Request /\ req.id \in Ids /\ req.body \in Payloads
      /\ row[req.id] = Begun /\ req' = req /\ d \in Daemon
      /\ conn[d.conn].at \in {"serving", "deserted"}
  <2>1. /\ req \in Request /\ conn[d.conn].at \in {"serving", "deserted"}
        /\ req.body \in Payloads /\ row[req.id] = Begun
    BY DEF Inv, DaemonInv, Outcome, ServingPC
  <2>2. d'.conn = d.conn
    BY DEF Inv, TypeInv, Outcome, respond, Daemon
  <2> QED BY <2>1, <2>2 DEF Inv, TypeInv, Outcome, req, Request
<1>2. \/ row' = row
      \/ \E o \in {"success", "failure"} :
            row' = [row EXCEPT ![req.id] = [payload |-> req.body, outcome |-> o,
                                            response |-> "none"]]
  BY <1>1 DEF Outcome, Begun, Inv, TypeInv
<1>3. RowsKept
  BY <1>1, <1>2 DEF RowsKept, Inv, TypeInv, Outcome, stumble, sound, Begun
<1>4. RowInv'
  BY <1>1, <1>2 DEF RowInv, Inv, TypeInv, Outcome
<1>5. TypeInv'
  <2>1. row' \in [Ids -> Row]
    BY <1>1, <1>2 DEF Inv, TypeInv, Row, Response
  <2>2. d' \in Daemon
    BY <1>1, RespondStep DEF Outcome, Response, Final
  <2> QED BY <1>1, <2>1, <2>2 DEF Inv, TypeInv, Outcome, stumble, sound
<1>6. DaemonInv'
  <2>1. PICK a \in {"success", "failure", "state_store"} :
            /\ respond(a)
            /\ a = "success" => row' = [row EXCEPT ![req.id].outcome = "success"]
    BY DEF Outcome
  <2>2. d'.pc = "cache" /\ d'.conn = d.conn /\ d'.response = a
    BY <2>1, <1>1, RespondStep DEF Response, Final
  <2>3. row'[req.id].response = "none" /\ row'[req.id].payload = req.body
    BY <1>1, <1>2 DEF Begun, Inv, TypeInv
  <2>4. a = "success" => row'[req.id].outcome = "success"
    BY <1>1, <2>1 DEF Inv, TypeInv, Row
  <2> QED
    BY <1>1, <2>1, <2>2, <2>3, <2>4 DEF DaemonInv, Honest, Final, Outcome
<1>7. ConnInv'
  BY <1>3, ConnKept DEF ConnInv, Outcome
<1>8. HeardInv'
  BY <1>3, HeardKept DEF Outcome
<1> QED BY <1>3, <1>4, <1>5, <1>6, <1>7, <1>8 DEF Inv

\* The response is stored under the row of the same mutation.
LEMMA CacheInv == ASSUME Inv, Cache PROVE Inv' /\ RowsKept
<1> USE PayloadsAssumption
<1>1. /\ req \in Request /\ req.id \in Ids /\ row[req.id] \in Row
      /\ req' = req /\ d \in Daemon /\ Honest(req, d.response)
      /\ conn[d.conn].at \in {"serving", "deserted"}
      /\ d.response # "none"
      /\ row[req.id].payload = req.body /\ row[req.id].response # "none"
         /\ req.id \notin lapse => d.response = row[req.id].response
  <2>1. /\ req \in Request /\ conn[d.conn].at \in {"serving", "deserted"}
        /\ Honest(req, d.response) /\ d.response # "none"
        /\ row[req.id].payload = req.body /\ row[req.id].response # "none"
           /\ req.id \notin lapse => d.response = row[req.id].response
    BY DEF Inv, DaemonInv, Cache, ServingPC
  <2>2. d'.conn = d.conn
    BY DEF Inv, TypeInv, Cache, Daemon
  <2> QED BY <2>1, <2>2 DEF Inv, TypeInv, Cache, req, Request
<1>2. \/ row' = row
      \/ /\ row' = [row EXCEPT ![req.id].response = d.response]
         /\ row[req.id].payload = req.body /\ row[req.id] # NoRow
         /\ lapse' = lapse
  BY DEF Cache, cacheable, replay_matches, sound
<1>3. RowsKept
  BY <1>1, <1>2 DEF RowsKept, Inv, TypeInv, Cache, stumble, sound, Row
<1>4. RowInv'
  <2>1. req.body \notin Payloads => row[req.id].payload # req.body \/ row[req.id] = NoRow
    BY <1>1 DEF Row, Inv, RowInv
  <2> QED
    BY <1>1, <1>2, <2>1 DEF RowInv, Inv, TypeInv, Cache, Row, Honest, Final
<1>5. TypeInv'
  BY <1>1, <1>2 DEF Inv, TypeInv, Cache, stumble, sound, Daemon, Row
<1>6. DaemonInv'
  BY <1>1 DEF Inv, TypeInv, Cache, cacheable, replay_matches, DaemonInv, NoRow,
       stumble, sound, Daemon, Final, Honest, Settled, ServingPC, Row
<1>7. ConnInv'
  BY <1>3, ConnKept DEF ConnInv, Cache
<1>8. HeardInv'
  BY <1>3, HeardKept DEF Cache
<1> QED BY <1>3, <1>4, <1>5, <1>6, <1>7, <1>8 DEF Inv

\* The response is written, or the client is gone.
LEMMA WriteInv == ASSUME Inv, Write PROVE Inv' /\ RowsKept
<1> USE PayloadsAssumption
<1>1. RowsKept /\ RowInv'
  BY DEF RowsKept, Inv, RowInv, Write
<1>2. /\ d \in Daemon /\ conn[d.conn] \in Connection /\ req \in Request
      /\ Honest(req, d.response) /\ Settled(req, d.response)
  BY DEF Inv, TypeInv, DaemonInv, Write, ServingPC, Daemon
<1>3. TypeInv'
  <2>1. d' \in Daemon
    BY <1>2, GotoStep DEF Write
  <2>2. conn' \in [Conns -> Connection]
    BY <1>2 DEF Inv, TypeInv, Write, Connection, Response, Closed, Daemon
  <2> QED BY <2>1, <2>2 DEF Inv, TypeInv, Write
<1>4. DaemonInv'
  BY <1>2 DEF DaemonInv, Write, goto, ServingPC, Daemon
<1>5. ConnInv'
  <2>1. PICK k \in Conns : k = d.conn
    BY <1>2 DEF Daemon
  <2>2. \A c \in Conns : c # k => conn'[c] = conn[c]
    BY <2>1 DEF Write, Inv, TypeInv
  <2>3. \/ conn'[k] = Closed
        \/ conn'[k].req = req /\ conn'[k].answer = d.response
    BY <1>2, <2>1 DEF Write, Inv, TypeInv, Connection, req
  <2>4. conn'[k].at = "answered" =>
            /\ Honest(conn[k].req, conn[k].answer)'
            /\ Settled(conn[k].req, conn[k].answer)'
    BY <2>3, <1>2 DEF Honest, Settled, Write, Closed
  <2>5. conn'[k].at # "closed" => conn'[k].req \in Request
    BY <2>3, <1>2 DEF Closed
  <2> QED BY <1>1, <2>2, <2>4, <2>5, ConnKept DEF ConnInv
<1>6. HeardInv'
  BY <1>1, HeardKept DEF Write
<1> QED BY <1>1, <1>3, <1>4, <1>5, <1>6 DEF Inv

\* The daemon is killed.
LEMMA CrashInv == ASSUME Inv, Crash PROVE Inv' /\ RowsKept
<1> USE PayloadsAssumption
<1>1. RowsKept /\ RowInv'
  BY DEF RowsKept, Inv, RowInv, Crash
<1>2. TypeInv'
  BY DEF Inv, TypeInv, Crash, goto, Connection, Response, Closed, Daemon
<1>3. DaemonInv'
  BY DEF Inv, TypeInv, DaemonInv, Crash, goto, ServingPC, Daemon
<1>4. ConnInv'
  BY <1>1, ConnKept DEF Inv, TypeInv, ConnInv, Crash, Closed
<1>5. HeardInv'
  BY <1>1, HeardKept DEF Crash
<1> QED BY <1>1, <1>2, <1>3, <1>4, <1>5 DEF Inv

-----------------------------------------------------------------------------
(* The theorems *)

\* The invariant holds before the first request.
LEMMA InitInv == Init => Inv
BY PayloadsAssumption
   DEF Init, Inv, TypeInv, RowInv, DaemonInv, ConnInv, HeardInv, NoRow, Row,
       Closed, Connection, Daemon, Response, Final, ServingPC

\* Every step of clients and daemon keeps the invariant, and rows only gain.
LEMMA NextInv == Inv /\ [Next]_vars => Inv' /\ RowsKept
<1> SUFFICES ASSUME Inv, [Next]_vars PROVE Inv' /\ RowsKept
  OBVIOUS
<1>1. CASE UNCHANGED vars
  <2>1. RowsKept
    BY <1>1 DEF vars, RowsKept
  <2>2. UNCHANGED <<row, conn, d, acted, heard, lapse>>
    BY <1>1 DEF vars
  <2>3. TypeInv' /\ RowInv'
    BY <2>2 DEF Inv, TypeInv, RowInv
  <2>4. DaemonInv'
    BY <2>2 DEF Inv, DaemonInv, Honest, Settled, Begun, req
  <2>5. ConnInv' /\ HeardInv'
    BY <2>2 DEF Inv, ConnInv, HeardInv, Honest, Settled
  <2> QED
    BY <2>1, <2>3, <2>4, <2>5 DEF Inv
<1>2. CASE Next
  BY <1>2, SendInv, ReceiveInv, LeaveInv, AcceptInv, RejectInv, BootInv,
     ColdStartInv, DispatchInv, RunInv, ActInv, OutcomeInv, CacheInv, WriteInv,
     CrashInv
     DEF Next
<1> QED BY <1>1, <1>2

\* The inductive invariant of the request protocol.
LEMMA ReplayInv == Spec => []Inv
<1>1. Inv /\ [Next]_vars => Inv'
  BY NextInv
<1> QED BY <1>1, InitInv, PTL DEF Spec

\* However often a request is repeated, and wherever the daemon is killed, the
\* operation of an id acts on the engine at most once: `act` is reached only
\* from the transaction that inserts the row of the id.
THEOREM EffectsOnce == Spec => []EffectOnce
<1>1. Inv => EffectOnce
  BY DEF Inv, RowInv, EffectOnce
<1> QED BY <1>1, ReplayInv, PTL

\* A client that hears `success` asked for exactly the mutation whose row says
\* success; no other use of its id, retry or crash makes the answer false.
THEOREM SuccessIsTrue == Spec => []TruthfulSuccess
<1>1. Inv => TruthfulSuccess
  BY DEF Inv, TypeInv, HeardInv, Honest, TruthfulSuccess, Final, RowInv
<1> QED BY <1>1, ReplayInv, PTL

\* Unless the database failed for the id, every final answer heard is the
\* stored response, so any two of them agree.
THEOREM AnswersNeverDiffer == Spec => []AnswersAgree
<1>1. Inv => AnswersAgree
  BY DEF Inv, TypeInv, HeardInv, Settled, AnswersAgree
<1> QED BY <1>1, ReplayInv, PTL

\* Unless the database failed for the id, a stored response is never replaced.
THEOREM StoredResponseStays == Spec => CachedResponseStable
<1>1. Inv /\ [Next]_vars =>
        [\A i \in Ids : row[i].response # "none" /\ i \notin lapse'
                           => row'[i].response = row[i].response]_vars
  BY NextInv DEF RowsKept
<1> QED BY <1>1, ReplayInv, PTL DEF Spec, CachedResponseStable
=============================================================================
