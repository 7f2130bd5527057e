---------------------------- MODULE MCFileSystem ----------------------------
(* Small instances of FileSystem. *)
EXTENDS FileSystem

(* Absolute and relative paths, a dot, dot-dots after a directory and      *)
(* after a file, and a dot-dot as the last part.                           *)
TreePaths ==
  { <<"", "a">>, <<"", "a", "b">>, <<"b">>, <<"..">>,
    <<"", "init", "..", "b">>, <<"", "a", "..">> }

TreeFlags == { {"read"}, {"write", "create"} }

(* A file to be made, devices and the empty path. *)
DevicePaths ==
  { <<"", "a">>, <<"", "dev", "uart">>, <<"", "dev", "timer">>, <<"">> }

FileNames == { <<"", "a">> }

DeviceFlags == { {}, {"write", "create"} }
=============================================================================
