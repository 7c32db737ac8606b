----------------------------- MODULE HttpHandler -----------------------------
(***************************************************************************)
(* handleConnection and handleFileRequest of http-server-futex.c; the      *)
(* other servers have the same text. A worker reads a request line and     *)
(* the headers, looks for the file, and sends a status line and the file   *)
(* in blocks. A request line is the set of what is wrong in it, a file is  *)
(* what stands at its path; both are chosen when the code looks at them,   *)
(* so a file may change between two looks.                                 *)
(***************************************************************************)
EXTENDS Naturals, Sequences
CONSTANTS Worker,
          MaxBlocks  \* the longest file, in blocks of DISK_IO_BUF_SIZE

VARIABLE rq \* per worker: its place and what it sent; as history, the status
            \* the line deserves and what stood at the path when it looked

Fault == {"words", "method", "version", "no_slash", "parent"}
Kind  == {"file", "dir", "none"}

Begin == [at |-> "line", out |-> <<>>, due |-> 200, seen |-> {}]
HandlerInit == rq = [w \in Worker |-> Begin]

Move(w, from, to) == rq[w].at = from /\ rq' = [rq EXCEPT ![w].at = to]

\* Send an item, look at nothing, and go on at to: the result of Send is not
\* used, and what a disconnected client misses is not modelled.
Sent(r, item, to) == [r EXCEPT !.out = Append(@, item), !.at = to]

-----------------------------------------------------------------------------
\* handleConnection: the tests in their order, each with its status.
Tests == << <<"words", 501>>, <<"method", 501>>, <<"version", 501>>, <<"no_slash", 400>>, <<"parent", 400>> >>
LineStatus(faults) ==
  LET failed == {i \in DOMAIN Tests : Tests[i][1] \in faults}
  IN  Tests[CHOOSE i \in failed : \A j \in failed : i <= j][2]

\* What the server implements comes before what the address is.
Due(faults) == IF faults \cap {"words", "method", "version"} # {} THEN 501
               ELSE IF faults \cap {"no_slash", "parent"} # {} THEN 400 ELSE 200

\* mutant: no goto end after the status line of a bad request
ReadLineGoesOn(w) ==
  /\ rq[w].at = "line"
  /\ \E faults \in SUBSET Fault :
       rq' = [rq EXCEPT ![w] =
         IF faults = {} THEN [@ EXCEPT !.at = "headers"]
         ELSE [Sent(@, <<"status", LineStatus(faults)>>, "headers") EXCEPT !.due = Due(faults)]]

ReadLine(w) ==
  /\ rq[w].at = "line"
  /\ \E faults \in SUBSET Fault :
       rq' = [rq EXCEPT ![w] =
         IF faults = {} THEN [@ EXCEPT !.at = "headers"]
         ELSE [Sent(@, <<"status", LineStatus(faults)>>, "close") EXCEPT !.due = Due(faults)]]

\* The headers end with a blank line, or with a piece of a header line that
\* looks like one: fgets cuts a line at 999 characters.
EndOfHeaders(w) == Move(w, "headers", "stat")

\* fgets returns NULL: 400 goes to the log, and nothing to the client.
ReadFails(w) == rq[w].at \in {"line", "headers"} /\ rq' = [rq EXCEPT ![w].at = "close"]

-----------------------------------------------------------------------------
\* handleFileRequest
Stat(w) ==
  /\ rq[w].at = "stat"
  /\ \E kind \in Kind :
       rq' = [rq EXCEPT ![w] = LET r == [@ EXCEPT !.seen = {kind}]
                               IN  IF kind = "dir" THEN Sent(r, <<"status", 403>>, "close")
                                                   ELSE [r EXCEPT !.at = "fopen"]]

\* fopen for reading succeeds for a directory too; fread then fails.
Fopen(w) ==
  /\ rq[w].at = "fopen"
  /\ \E kind \in Kind :
       rq' = [rq EXCEPT ![w] = LET r == [@ EXCEPT !.seen = rq[w].seen \cup {kind}]
                               IN  CASE kind = "none" -> Sent(r, <<"status", 404>>, "close")
                                     [] kind = "dir"  -> Sent(r, <<"status", 200>>, "close")
                                     [] kind = "file" -> Sent(r, <<"status", 200>>, "file")]

SendBlock(w) ==
  /\ rq[w].at = "file"
  /\ Len(rq[w].out) <= MaxBlocks
  /\ rq' = [rq EXCEPT ![w] = Sent(@, <<"block", Len(@.out)>>, "file")]

\* The end of the file, an error of the disk, or send failed.
EndOfFile(w) == Move(w, "file", "close")

HandlerStep(w) == \/ ReadLine(w) \/ EndOfHeaders(w) \/ Stat(w) \/ Fopen(w) \/ SendBlock(w) \/ EndOfFile(w)

\* The request goes to the log and fclose closes the connection.
Close(w) == rq[w].at = "close" /\ rq' = [rq EXCEPT ![w] = Begin]

HandlerNext == \E w \in Worker : HandlerStep(w) \/ ReadFails(w) \/ Close(w)
HandlerSpec == HandlerInit /\ [][HandlerNext]_rq

-----------------------------------------------------------------------------
(* Properties *)

HandlerTypeOK ==
  rq \in [Worker -> [at   : {"line", "headers", "stat", "fopen", "file", "close"},
                     out  : Seq({"status"} \X {200, 400, 403, 404, 501} \cup {"block"} \X Nat),
                     due  : {200, 400, 501},
                     seen : SUBSET Kind]]

(* A client is answered once, after its whole request, and with what it is due:
   a bad line with the status of its first fault, a good one according to what
   stood at the path while the server looked; the file follows a 200 only, in
   order and without gaps. One answer is wrong: a directory that took the place
   of no file between stat and fopen is answered with 200 and no content. *)
AnswerIsDue ==
  \A w \in Worker :
    LET r == rq[w]
        status == r.out[1][2]
    IN  /\ r.at \in {"line", "headers", "stat", "fopen"} => r.out = <<>>
        /\ r.out # <<>> =>
             /\ r.out[1][1] = "status"
             /\ \A i \in 2 .. Len(r.out) : r.out[i] = <<"block", i - 1>> /\ status = 200
             /\ IF r.due # 200 THEN status = r.due
                ELSE \/ status = 403 /\ "dir" \in r.seen
                     \/ status = 404 /\ "none" \in r.seen
                     \/ status = 200 /\ ("file" \in r.seen \/ r.seen = {"none", "dir"})
=============================================================================
