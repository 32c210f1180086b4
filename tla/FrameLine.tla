------------------------------- MODULE FrameLine -------------------------------
(* What the writing half of a kipc app-link promises, and nothing else: frames   *)
(* stand in one line and go out whole from its front, a caller hears "written"   *)
(* only as its own frame goes, and a line that breaks sends nothing more. How    *)
(* bytes are accepted, who waits for what and how long is the business of        *)
(* LinkWriter; a channel of AppLink is such a line.                              *)
EXTENDS Sequences

CONSTANTS Calls           \* the callers, each with one frame

VARIABLES line,           \* frames admitted and not sent, in order
          sent,           \* frames the stream holds in full, in order
          broken,         \* whether the line has failed
          told            \* what each caller knows: new, waiting, written, failed

vars == <<line, sent, broken, told>>

Init == /\ line = <<>> /\ sent = <<>>
        /\ broken = FALSE
        /\ told = [c \in Calls |-> "new"]

(* A frame joins at the end of a line in service.                                *)
Join(c) ==
  /\ ~broken /\ told[c] = "new"
  /\ line' = Append(line, c)
  /\ told' = [told EXCEPT ![c] = "waiting"]
  /\ UNCHANGED <<sent, broken>>

(* The front frame goes out; its caller hears of it if it still waits.           *)
Send ==
  /\ ~broken /\ line # <<>>
  /\ sent' = Append(sent, Head(line))
  /\ line' = Tail(line)
  /\ told' = [told EXCEPT ![Head(line)] = IF @ = "waiting" THEN "written" ELSE @]
  /\ UNCHANGED broken

(* A caller is refused, or stops waiting. Its frame, once in line, stays there.  *)
GiveUp(c) ==
  /\ told[c] \in {"new", "waiting"}
  /\ told' = [told EXCEPT ![c] = "failed"]
  /\ UNCHANGED <<line, sent, broken>>

(* The front frame fails and takes the line with it.                             *)
Break ==
  /\ ~broken /\ line # <<>>
  /\ broken' = TRUE
  /\ told' = [told EXCEPT ![Head(line)] = IF @ = "waiting" THEN "failed" ELSE @]
  /\ UNCHANGED <<line, sent>>

Next == Send \/ Break \/ \E c \in Calls : Join(c) \/ GiveUp(c)

Spec == Init /\ [][Next]_vars
================================================================================
