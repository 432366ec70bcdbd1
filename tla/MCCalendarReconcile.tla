------------------------ MODULE MCCalendarReconcile ------------------------
(***************************************************************************)
(* CalendarReconcile for TLC: the first action cannot be published any    *)
(* more once it has been changed.                                          *)
(***************************************************************************)
EXTENDS CalendarReconcile

MCRefused == {<<1, 1>>}
=============================================================================
