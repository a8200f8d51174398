----------------------------- MODULE MCServices ------------------------------
(***************************************************************************)
(* The parts of the daemon that serve requests and results and share no     *)
(* state: skill installation, the result stream, mail and calendar.  As in  *)
(* MCBackground, a behaviour is one of any single part.                     *)
(***************************************************************************)
EXTENDS SkillInstall, ResultStream, GoogleAccess

VARIABLE part   \* the part that this behaviour is about

SameSlug == [r \in Bundles |-> "mail"]
MCProposed == [r \in Bundles |-> IF r = "v1" THEN 2 ELSE 0]

MCReplyTo == [r \in Results |->
  CASE r = "plain" -> <<"channel">>
    [] r = "both" -> <<"telegram", "channel">>
    [] OTHER -> <<"telegram", "channel", "stdout", "file">>]
MCResultsTogether == {{}, {"plain", "both"}, {"leak"}}

Asks(op, env) == [op |-> op, by |-> NoTask, env |-> env, account |-> "work", complete |-> TRUE]
MCAsk == [c \in Calls |->
  CASE c = "blank" -> [Asks("get", NoTask) EXCEPT !.complete = FALSE]
    [] c = "refused" -> Asks("create", "reader")
    [] c = "delete" -> [Asks("delete", NoTask) EXCEPT !.by = "reader"]
    [] c \in Writes -> Asks(c, "writer")
    [] OTHER -> Asks(c, NoTask)]
MCCallsTogether ==
  {{}, {"update", "delete"}, {"send", "reply"}, {"list", "create"}, {"read", "get"},
   {"agenda", "blank"}, {"refused", "update"}}
MCAllowWrites == [t \in {"reader", "writer"} |-> t = "writer"]

ServicesInit ==
  /\ part \in {"skills", "stream", "google"}
  /\ SkillInit /\ StreamInit /\ GoogleInit
  /\ part = "stream" <=> \E r \in Results : routing[r].pc # "never"
  /\ part = "google" <=> \E c \in Calls : call[c].pc # "never"

InSkills(A) == part = "skills" /\ A /\ UNCHANGED <<part, streamVars, googleVars>>
InStream(A) == part = "stream" /\ A /\ UNCHANGED <<part, skillVars, googleVars>>
InGoogle(A) == part = "google" /\ A /\ UNCHANGED <<part, skillVars, streamVars>>

ServicesNext == InSkills(SkillNext) \/ InStream(StreamNext) \/ InGoogle(GoogleNext)

ServicesSpec == ServicesInit /\ [][ServicesNext]_<<part, skillVars, streamVars, googleVars>>

(* The state of each part keeps to its domain. *)
ServicesTypeOK == SkillTypeOK /\ StreamTypeOK /\ GoogleTypeOK
=============================================================================
