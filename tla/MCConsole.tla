----------------------------- MODULE MCConsole ------------------------------
(***************************************************************************)
(* A small console: the shell, which reads and prints, and init, which     *)
(* prints.                                                                 *)
(***************************************************************************)
EXTENDS Printf

CONSTANTS shell, init

Work(s, i, c) == [prints |-> (shell :> s) @@ (init :> i), codes |-> c]

\* One prints a text, typing fills the buffer, both print while one types;
\* formatted output, alone and while one types.
MCWorkloads   == {Work(5, 0, 0), Work(0, 0, 5), Work(1, 2, 0), Work(0, 1, 1),
                  Work(0, 0, 0), Work(0, 0, 1)}
RaceWorkloads == {Work(1, 4, 0)}

\* Enter, d, F1, Shift, Ctrl and its release.
MCCodes       == {28, 32, 59, 42, 29, 157}

\* A call of c_printf or c_printf_at: no format, no call.
Call(fmt, args, at, x, y) == [fmt |-> fmt, args |-> args, at |-> at, x |-> x, y |-> y]

\* A field between plain characters, of every shape and with arguments at
\* the boundaries, printed at the top of the screen, across its edge or below
\* it.
Ints == {0, 7, -10, 2147483647, MinInt, MinInt + 1, -1}
Args(conv) == CASE conv = "c" -> {97, NL, NL + 128}
                [] conv = "s" -> {<<>>, <<97, NL, 98>>, <<97, 98>>}
                [] OTHER      -> Ints
AtCalls ==
  UNION {{Call(<<Char(97), Directive(conv, l, z, width), Char(98)>>, <<arg>>, TRUE, x, y) :
            l \in BOOLEAN, z \in BOOLEAN, width \in {0, 3, 12}, arg \in Args(conv),
            x \in {0, 1}, y \in {0, Rows}} : conv \in Conversions}

\* Several directives, one of them unknown, on the scrolling screen and at a
\* place, over several lines.
Fields == <<Char(97), Directive("d", FALSE, FALSE, 4), Directive("u", FALSE, FALSE, 0),
            Char(NL), Directive("s", TRUE, FALSE, 3), Char(CR), Directive("x", FALSE, TRUE, 4)>>
NoCall == {Call(<<>>, <<>>, FALSE, 0, 0)}
NoJobs(w) == NoCall
MCJobs(w) ==
  CASE w = Work(0, 0, 0) -> AtCalls \cup {Call(Fields, <<-12, <<97>>, 26>>, TRUE, 0, 0),
                                          Call(Fields, <<MinInt, <<>>, -1>>, FALSE, 0, 0)}
    [] w = Work(0, 0, 1) -> {Call(<<Directive("d", FALSE, FALSE, 2)>>, <<7>>, FALSE, 0, 0)}
    [] OTHER             -> NoCall
=============================================================================
