------------------------------ MODULE MCShell ------------------------------
(* A small instance of Shell. *)
EXTENDS Shell, TLC

ShellSplit ==
  "/f" :> <<"", "f">> @@ "/s" :> <<"", "s">> @@ "/dev" :> <<"", "dev">>
    @@ "/bin" :> <<"", "bin">> @@ "/init" :> <<"", "init">>
    @@ "/bin/cat" :> <<"", "bin", "cat">> @@ "/bin/sh" :> <<"", "bin", "sh">>

ShellPids == "0" :> 0 @@ "1" :> 1 @@ "2" :> 2 @@ "3" :> 3 @@ "9" :> 9

ShellNames ==
  <<"1", "2", "3", "bin", "cat", "console", "dev", "f", "init", "s", "sh", "timer", "uart">>

ShellPrograms == <<"/bin/sh", "/bin/cat">>

(* It writes a file, kills process 2 and goes on, if that is another one. *)
ShellScript == <<"cat", ">", "/f", "\n", "kill", "2", "\n", "ps">>

(* Lines that read what they write, that overflow a file, that fail in     *)
(* each of the ways there are, that kill the process that runs them in the *)
(* first and in the last stage, and that run a script.                     *)
ShellLines ==
  { <<"echo", "a", ">", "/f">>,
    <<"cat", "/f", "/f", ">", "/f">>,
    <<"cat", "<", "/f", "|", "cat", ">", "/f">>,
    <<"echo", "a", "b", "c", ">", "/bin/sh">>,
    <<"echo", "a", ">", "/f", "|", "cat">>,
    <<"kill", "2", "|", "ps", ">", "/f">>,
    <<"kill", "9", "|", "echo", "a", ">", "/f">>,
    <<"kill", "x">>,
    <<"echo", "a", "|", "kill", "3", ">", "/f">>,
    <<"sh", "/s", ">", "/f">>,
    <<"ls", "/f">>, <<"ls", "/bin">>,
    <<"echo", "a", ">", "/dev">>, <<"echo", ">", "/f", ">", "/s">>,
    <<"cat", "<">>, <<"nosuch", ">", "/f">> }

InitShellLines == { <<>>, <<"ps", ">", "/init">> }
=============================================================================
