---------------------------- MODULE MCExecTrace ----------------------------
(* Small instances of ExecTrace: names of at most two bytes, so that "l" is   *)
(* to "lo" what "ls" is to "lsof".                                            *)
EXTENDS ExecTrace

Ls   == <<"l">>
Lsof == <<"l", "o">>
Sh   == <<"s">>

MCComm == {Ls, Lsof, Sh}

Line(comms, ignores, filter) ==
    [comms |-> comms, ignores |-> ignores, filter |-> filter]

(* Each mode with one and with two names, none, both, one name too many, and  *)
(* a name that is too long for a task.                                        *)
MCCommandLines == {
    Line(<<Ls>>, <<>>, FALSE), Line(<<Sh, Ls>>, <<>>, FALSE),
    Line(<<>>, <<Ls>>, TRUE), Line(<<>>, <<Sh, Lsof>>, FALSE),
    Line(<<>>, <<>>, TRUE), Line(<<>>, <<>>, FALSE),
    Line(<<Sh>>, <<Ls>>, FALSE), Line(<<Sh, Sh, Ls>>, <<>>, FALSE),
    Line(<<Lsof \o Ls>>, <<>>, FALSE), Line(<<>>, <<Sh, Lsof \o Ls>>, FALSE) }

Program(comm, hit) == [comm |-> comm, hit |-> hit]

(* Each name; --filter occurs in some of them. *)
MCPrograms == {Program(Ls, TRUE), Program(Lsof, FALSE), Program(Sh, TRUE)}
=============================================================================
