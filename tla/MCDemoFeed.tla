------------------------------- MODULE MCDemoFeed -------------------------------
(***************************************************************************)
(* What the page's source says of the activity log.                        *)
(***************************************************************************)
EXTENDS DemoFeed

(* "nothing new -- leave the DOM untouched" (demo.page.ts:486): when a     *)
(* poll leaves the log as it is, the events of its answer that are still   *)
(* in the buffer have their cards.                                         *)
UntouchedIfNothingNew ==
  [][\A p \in Polls :
       Render(p) /\ UNCHANGED log
         => ToSet(poll[p].answer) \cap ToSet(events) \subseteq ToSet(log)]_vars
===============================================================================
