------------------------------ MODULE Commands ------------------------------
(***************************************************************************)
(* A command in the child that was forked for it, on top of Env: child_exec *)
(* (exec/exec.c) from the dispatch of run_builtin (builtin/builtin.c) to    *)
(* the program, the search of PATH (exec/path.c), and the builtins that     *)
(* print what the shell keeps (builtin/echo_pwd_env.c).  The shell waits    *)
(* meanwhile; other processes go on removing directories.                  *)
(***************************************************************************)
EXTENDS Env

CONSTANTS
    Forked,  \* the commands to fork: records [name, args], a program's args being its argv
    Files    \* the files, by their absolute paths: programs and files that are none

ASSUME CommandsAssumption ==
    /\ \A c \in Forked : c.name \in {"program", "env", "pwd"} /\ c.args \in Seq(Str)
    /\ \A p \in DOMAIN Files : p \in Str \ Dirs /\ Files[p] \in {"program", "data"}
    /\ ":" \in Char

Runs == -1   \* no exit status

VARIABLES
    stage,   \* where the child is; idle: there is none
    child,   \* its command
    parts,   \* the components of PATH still to look in
    path,    \* the file to execute
    given,   \* what its program was given as environ, or what env printed
    status   \* how it ended: an exit status, or Runs once it is its program

forked == <<stage, child, parts, path, given, status>>

CommandsTypeOK ==
    /\ TypeOK
    /\ stage \in {"idle", "access", "execve", "over"}
    /\ child \in Forked \cup {NoCommand}
    /\ parts \in Seq(Str) /\ path \in Str \cup {Null}
    /\ DOMAIN given \subseteq Nat /\ \A m \in DOMAIN given : given[m] \in Str
    /\ status \in {0, 1, 126, 127, 139, Runs}

Idle == /\ stage = "idle" /\ child = NoCommand /\ parts = <<>>
        /\ path = Null /\ given = <<>> /\ status = 0

CommandsInit == Init /\ Idle

-----------------------------------------------------------------------------
(* The file system: a path to a file leads to a directory and names a file in
   it; what another process removes goes with all it holds. *)
Directory(p) == Prefix(p, Max(Slashes(p)))
Name(p)      == From(p, Max(Slashes(p)) + 1)

Kind(p) ==
    LET d == Resolve(Directory(p)) IN
    IF Resolve(p) \in Dirs THEN "directory"
    ELSE IF d \in Dirs \ gone /\ Below(d, Name(p)) \in DOMAIN Files THEN Files[Below(d, Name(p))]
    ELSE "absent"

(* access(p, X_OK) == 0, which it is for a directory too *)
Access(p) == Kind(p) \in {"program", "directory"}

-----------------------------------------------------------------------------
(* exec/path.c. *)
PATH == <<"P", "A", "T", "H">>

join_path(dir, cmd) == dir \o <<"/">> \o cmd

Ends(s)  == stage' = "over" /\ status' = s
Quietly  == UNCHANGED <<env, pc, todo, call, place, lost>>

(* The strings that execve copies: those before the first NULL. *)
Environ ==
    LET n == CHOOSE j \in DOMAIN arr : arr[j] = Null /\ \A m \in 0 .. j - 1 : arr[m] # Null
    IN [m \in 1 .. n |-> arr[m - 1]]

(* A command without a word, one whose word is empty, or a program. *)
NoProgram(c) ==
    /\ c.name = "program"
    /\ \/ c.args = <<>> /\ Ends(0)
       \/ c.args # <<>> /\ c.args[1] = <<>> /\ Ends(127)
    /\ UNCHANGED <<parts, path, given, failed>>

(* find_exec_path up to its loop: a word with a slash is a path already. *)
find_exec_path(c) ==
    /\ c.name = "program" /\ c.args # <<>> /\ c.args[1] # <<>>
    /\ LET cmd == c.args[1] IN
       \/ /\ Slashes(cmd) # {}
          /\ path' = cmd /\ stage' = "execve"
          /\ UNCHANGED <<parts, status, failed>>
       \/ /\ Slashes(cmd) = {} /\ env_get(PATH) # Null
          /\ parts' = ft_split(env_get(PATH), ":") /\ stage' = "access"
          /\ UNCHANGED <<path, status, failed>>
       \/ /\ Slashes(cmd) = {} /\ env_get(PATH) = Null
          /\ Ends(IF Dies(PATH) THEN 139 ELSE 127)
          /\ UNCHANGED <<parts, path, failed>>
       \/ /\ Faults \* ft_strdup or ft_split: the same message as for no command
          /\ Ends(127) /\ failed' = TRUE
          /\ UNCHANGED <<parts, path>>
    /\ UNCHANGED given

(* What env prints of the first n strings: those that have an '=', each in the
   turn of the loop that prints it. *)
Printed(n) ==
    LET assigns(m) == \E j \in DOMAIN arr[m - 1] : arr[m - 1][j] = "="
    IN [m \in {k \in 1 .. n : assigns(k)} |-> arr[m - 1]]

(* Mutant: the last string is not printed. *)
bi_env_short(c) ==
    /\ c.name = "env" /\ c.args = <<>> /\ Seen = len
    /\ Ends(0)
    /\ given' = Printed(len - 1)
    /\ UNCHANGED <<parts, path, failed>>

bi_env(c) ==
    /\ c.name = "env"
    /\ \/ c.args # <<>> /\ Ends(1) /\ UNCHANGED given
       \/ /\ c.args = <<>> /\ Seen = len /\ Ends(0)
          /\ given' = Printed(len)
       \/ /\ c.args = <<>> /\ Seen < len /\ Ends(139)   \* ft_strchr of NULL, with all it had printed
          /\ UNCHANGED given
    /\ UNCHANGED <<parts, path, failed>>

bi_pwd(c) ==
    /\ c.name = "pwd"
    /\ Ends(IF cwd \in gone THEN 1 ELSE 0)
    /\ UNCHANGED <<parts, path, given, failed>>

(* fork, and the child as far as it needs nothing but its memory. *)
child_exec(c) ==
    /\ pc = "prompt" /\ stage = "idle"
    /\ child' = c
    /\ NoProgram(c) \/ find_exec_path(c) \/ bi_env(c) \/ bi_pwd(c)
    /\ Quietly

(* One turn of find_exec_path's loop.  A component whose path found no memory
   is passed over. *)
search ==
    /\ stage = "access"
    /\ \/ /\ parts = <<>>
          /\ Ends(127)
          /\ UNCHANGED <<parts, path, failed>>
       \/ /\ parts # <<>> /\ Access(join_path(Head(parts), child.args[1]))
          /\ path' = join_path(Head(parts), child.args[1]) /\ stage' = "execve"
          /\ UNCHANGED <<parts, status, failed>>
       \/ /\ parts # <<>> /\ ~ Access(join_path(Head(parts), child.args[1]))
          /\ parts' = Tail(parts)
          /\ UNCHANGED <<stage, path, status, failed>>
       \/ /\ parts # <<>> /\ Faults
          /\ parts' = Tail(parts) /\ failed' = TRUE
          /\ UNCHANGED <<stage, path, status>>
    /\ UNCHANGED <<child, given>> /\ Quietly

(* exec_not_found's execve: it runs the program, or leaves ENOENT or EACCES. *)
execve ==
    /\ stage = "execve"
    /\ Ends(CASE Kind(path) = "program" -> Runs [] Kind(path) = "absent" -> 127 [] OTHER -> 126)
    /\ given' = IF Kind(path) = "program" THEN Environ ELSE <<>>
    /\ UNCHANGED <<child, parts, path, failed>> /\ Quietly

(* wait_all; what the child was is forgotten. *)
Reap ==
    /\ stage = "over"
    /\ stage' = "idle" /\ child' = NoCommand /\ parts' = <<>>
    /\ path' = Null /\ given' = <<>> /\ status' = 0 /\ failed' = FALSE
    /\ Quietly

CommandsNext ==
    \/ stage = "idle" /\ Next /\ UNCHANGED forked
    \/ \E c \in Forked : child_exec(c)
    \/ search \/ execve \/ Reap
    \/ stage # "idle" /\ (\E d \in Dirs : Rmdir(d)) /\ UNCHANGED forked

CommandsSpec == CommandsInit /\ [][CommandsNext]_<<vars, forked>>

-----------------------------------------------------------------------------
(* The components of PATH, as positions in its value: what is between two
   colons, or a colon and an end, and is not empty. *)
Components(s) ==
    {k \in (1 .. Len(s)) \X (1 .. Len(s)) :
        /\ k[1] <= k[2] /\ \A m \in k[1] .. k[2] : s[m] # ":"
        /\ k[1] = 1 \/ s[k[1] - 1] = ":"
        /\ k[2] = Len(s) \/ s[k[2] + 1] = ":"}

(* The file that is executed for a plain word is the one in the first component
   of PATH that has something executable of that name, a directory included,
   also when directories disappear during the search; "command not found"
   means that none has, or that the one found was removed before execve, in
   which case the others are not tried (path.c:46, exec.c:27).  Out of memory a
   component may have been passed over; a child dies looking for PATH only if
   env_init had lost a string. *)
RunsTheFirst ==
    stage = "over" /\ child.name = "program" /\ child.args # <<>> =>
        LET cmd    == child.args[1]
            value  == env_get(PATH)
            plain  == cmd # <<>> /\ Slashes(cmd) = {}
            places == IF value = Null THEN {} ELSE Components(value)
            At(k)  == SubSeq(value, k[1], k[2]) \o <<"/">> \o cmd
        IN plain =>
           /\ path = Null => \/ status = 127 /\ (failed \/ \A k \in places : ~ Access(At(k)))
                             \/ status = 139 /\ value = Null /\ lost
           /\ path # Null => \E k \in places :
                 /\ path = At(k)
                 /\ failed \/ \A o \in places : o[1] < k[1] => ~ Access(At(o))
                 /\ status = 127 => Kind(path) = "absent"

(* A program is handed, and env prints, the shell's variables: every one, with
   the value that $NAME has, and none twice (env.c:43, exec.c:27). *)
ChildSeesVariables ==
    status = Runs \/ (stage = "over" /\ child.name = "env" /\ status = 0) =>
        LET set == {j \in DOMAIN given : KeyLen(given[j]) < Len(given[j])}
        IN /\ \A j, k \in set : KeyOf(given[j]) = KeyOf(given[k]) => j = k
           /\ {<<KeyOf(given[j]), ValueOf(given[j])>> : j \in set} = {<<n, Values[n]>> : n \in Names}
=============================================================================
