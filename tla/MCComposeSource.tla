-------------------------- MODULE MCComposeSource --------------------------
(* One line of every sort the loop of process_source tells apart.          *)
EXTENDS ComposeSource

L(token, no_hint, unimpl, task) ==
  [token |-> token, blank |-> FALSE, no_hint |-> no_hint, unimpl |-> unimpl, task |-> task]

MCText == L("none", FALSE, FALSE, NoTask)

MCLine ==
  { MCText,
    [MCText EXCEPT !.blank = TRUE],
    L("private", FALSE, TRUE, "t"),
    L("private", TRUE, FALSE, NoTask),
    L("public", FALSE, FALSE, NoTask),
    L("begin_private", FALSE, FALSE, "u"),
    L("begin_private", TRUE, FALSE, "t"),
    L("end_private", FALSE, FALSE, "t"),
    L("bad", FALSE, FALSE, NoTask) }

MCTask == {"t", "u"}
=============================================================================
