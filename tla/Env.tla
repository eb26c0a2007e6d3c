-------------------------------- MODULE Env --------------------------------
(***************************************************************************)
(* The environment (env/) and the builtins that change it: export and      *)
(* unset (builtin/export_unset.c), one argument at a time, and cd          *)
(* (builtin/cd.c), whose system calls another process may come between.    *)
(*                                                                         *)
(* A string is the sequence of its characters.  env->arr is a function on  *)
(* 0 .. cap - 1: the strings, then NULL, as execve expects it.             *)
(***************************************************************************)
EXTENDS Integers, SequencesExt

CONSTANTS
    Char,        \* the characters in use
    Letters,     \* those that a name may have
    Digits,      \* those that it may have, but not first
    InitialCap,  \* env_init's 64
    Environs,    \* the environments the shell may be started with
    Commands,    \* the command lines to try: records [name, args]
    Dirs,        \* the directories, by their absolute paths
    Faults,      \* whether malloc may fail
    Null         \* C's NULL

Str == Seq(Char)

ASSUME EnvAssumption ==
    /\ {"P", "W", "D", "O", "L"} \subseteq Letters
    /\ Letters \cup Digits \cup {"="} \subseteq Char
    /\ InitialCap \in Nat /\ InitialCap > 2
    /\ Environs \subseteq Seq(Str)
    /\ \A c \in Commands : c.name \in {"export", "unset", "cd"} /\ c.args \in Seq(Str)
    /\ Dirs \subseteq Str /\ {"/", "."} \subseteq Char
    /\ Faults \in BOOLEAN
    /\ Null \notin Str

VARIABLES
    arr, len, cap,   \* sh->env
    pc,              \* where the shell is
    todo,            \* the strings still to import, the arguments still to look at
    command,         \* the builtin being executed
    ret,             \* what it returned
    cwd,             \* the shell's working directory
    oldpwd,          \* bi_cd's cwd: "" when getcwd failed
    gone,            \* the directories other processes have removed
    before,          \* history: the variables when the builtin began
    failed,          \* history: a malloc has failed since then
    lost             \* history: env_init found no memory for a string

env   == <<arr, len, cap>>
place == <<cwd, oldpwd, gone>>
call  == <<command, ret, before>>
vars  == <<env, pc, todo, call, place, failed, lost>>

-----------------------------------------------------------------------------
(* Strings. *)
Prefix(s, n) == SubSeq(s, 1, n)
From(s, n)   == SubSeq(s, n, Len(s))

(* ft_strncmp(e, k, klen) == 0 && e[klen] == '=' *)
Matches(e, k) == Len(e) > Len(k) /\ e[Len(k) + 1] = "=" /\ Prefix(e, Len(k)) = k

(* How long the part of s before its first '=' is. *)
KeyLen(s) == CHOOSE n \in 0 .. Len(s) :
                /\ n < Len(s) => s[n + 1] = "="
                /\ \A m \in 1 .. n : s[m] # "="

valid_ident(s) == /\ s # <<>> /\ s[1] \in Letters
                  /\ \A m \in 1 .. KeyLen(s) : s[m] \in Letters \cup Digits

(* export_one: NAME=VALUE, or NAME alone for an empty value. *)
KeyOf(s)      == Prefix(s, KeyLen(s))
ValueOf(s)    == From(s, KeyLen(s) + 2)
make_kv(k, v) == k \o <<"=">> \o v

(* How many of the first n elements of a come before the first NULL. *)
Before(a, n) == CHOOSE m \in 0 .. n : (m < n => a[m] = Null) /\ \A j \in 0 .. m - 1 : a[j] # Null

(* The strings that a walk over the array reads before it meets a NULL. *)
Seen == Before(arr, len)

(* Mutant: a name matches a variable whose name begins with it. *)
Found_prefix(k) == {j \in 0 .. Seen - 1 : Len(arr[j]) > Len(k) /\ Prefix(arr[j], Len(k)) = k}

(* find_key: the first entry that matches, -1 when there is none; the walk that
   finds none dies of a NULL before the end, which ft_strncmp dereferences. *)
Found(k)    == {j \in 0 .. Seen - 1 : Matches(arr[j], k)}
find_key(k) ==
    LET F == Found(k) IN IF F = {} THEN -1 ELSE CHOOSE j \in F : \A m \in F : j <= m
Dies(k)     == find_key(k) = -1 /\ Seen < len

env_get(k) == LET j == find_key(k) IN IF j = -1 THEN Null ELSE From(arr[j], Len(k) + 2)

(* The variables that the array defines, as the rest of the shell sees them. *)
Names  == {KeyOf(arr[j]) : j \in {m \in 0 .. Seen - 1 : KeyLen(arr[m]) < Len(arr[m])}}
Values == [n \in Names |-> env_get(n)]

NoCommand == [name |-> "none", args |-> <<>>]

ArrayOK == cap \in Nat /\ len \in 0 .. cap /\ arr \in [0 .. cap - 1 -> Str \cup {Null}]

ControlOK ==
    /\ pc \in {"init", "prompt", "export", "unset", "cd", "getcwd", "setpwd", "exited", "crashed"}
    /\ todo \in Seq(Str)
    /\ command \in Commands \cup {NoCommand}
    /\ ret \in {0, 1}
    /\ cwd \in Dirs /\ oldpwd \in Dirs \cup {<<>>} /\ gone \subseteq Dirs
    /\ failed \in BOOLEAN /\ lost \in BOOLEAN

TypeOK == ArrayOK /\ ControlOK

Init ==
    /\ len = 0 /\ cap = InitialCap
    /\ arr = [j \in 0 .. cap - 1 |-> Null]
    /\ pc = "init"
    /\ todo \in Environs
    /\ command = NoCommand /\ before = <<>> /\ oldpwd = <<>> /\ ret = 0
    /\ cwd \in Dirs /\ gone = {}
    /\ failed = FALSE /\ lost = FALSE

(* The variables of a call are dead once it has returned. *)
ForgetCall == command' = NoCommand /\ before' = <<>> /\ oldpwd' = <<>> /\ todo' = <<>>

-----------------------------------------------------------------------------
(* env.c and env_getset.c. *)

(* Mutant: the array grows when it is full, with no room kept for NULL. *)
Full_late == len >= cap

Full == len + 2 >= cap

(* env_grow: twice the room, zeroed, and the strings copied. *)
Room == IF Full THEN 2 * cap ELSE cap
Grown == [j \in 0 .. Room - 1 |-> IF j < len THEN arr[j] ELSE Null]

(* Mutant: env->cap is not updated. *)
AppendEntry_cap(e) ==
    /\ arr' = [Grown EXCEPT ![len] = e, ![len + 1] = Null]
    /\ len' = len + 1
    /\ UNCHANGED cap

AppendEntry(e) ==
    /\ arr' = [Grown EXCEPT ![len] = e, ![len + 1] = Null]
    /\ len' = len + 1
    /\ cap' = Room

(* make_kv or env_grow may fail; the callers do not look. *)
env_set(k, v) ==
    \/ /\ find_key(k) # -1
       /\ arr' = [arr EXCEPT ![find_key(k)] = make_kv(k, v)]
       /\ UNCHANGED <<len, cap, failed>>
    \/ /\ find_key(k) = -1 /\ ~ Dies(k)
       /\ AppendEntry(make_kv(k, v))
       /\ UNCHANGED failed
    \/ /\ Faults
       /\ failed' = TRUE
       /\ UNCHANGED env

(* Mutant: the last entry is not moved. *)
env_unset_lost(k) ==
    LET idx == find_key(k) IN
    IF idx = -1 THEN ~ Dies(k) /\ UNCHANGED env
    ELSE /\ arr' = [j \in DOMAIN arr |->
                       CASE j = len - 1 -> Null
                         [] idx <= j /\ j < len - 2 -> arr[j + 1]
                         [] OTHER -> arr[j]]
         /\ len' = len - 1
         /\ UNCHANGED cap

(* The entries after the one removed move one place to the left. *)
env_unset(k) ==
    LET idx == find_key(k) IN
    IF idx = -1 THEN ~ Dies(k) /\ UNCHANGED env
    ELSE /\ arr' = [j \in DOMAIN arr |->
                       CASE j = len - 1 -> Null
                         [] idx <= j /\ j < len - 1 -> arr[j + 1]
                         [] OTHER -> arr[j]]
         /\ len' = len - 1
         /\ UNCHANGED cap

(* env_init, one string of environ at a time.  env_grow's failure ends the
   shell; nobody looks whether ft_strdup failed. *)
env_init ==
    /\ pc = "init"
    /\ \/ /\ todo # <<>>
          /\ AppendEntry(Head(todo))
          /\ todo' = Tail(todo)
          /\ UNCHANGED <<pc, lost>>
       \/ /\ todo # <<>> /\ Faults
          /\ AppendEntry(Null)
          /\ todo' = Tail(todo) /\ lost' = TRUE
          /\ UNCHANGED pc
       \/ /\ todo # <<>> /\ Full /\ Faults
          /\ pc' = "exited" /\ todo' = <<>>
          /\ UNCHANGED <<env, lost>>
       \/ /\ todo = <<>>
          /\ pc' = "prompt"
          /\ UNCHANGED <<env, todo, lost>>
    /\ UNCHANGED <<call, place, failed>>

-----------------------------------------------------------------------------
(* The builtins. *)

(* run_builtin. *)
Run(c) ==
    /\ pc = "prompt"
    /\ command' = c /\ todo' = c.args /\ pc' = c.name
    /\ before' = Values /\ failed' = FALSE /\ ret' = 0
    /\ UNCHANGED <<env, place, lost>>

Return(r) == ret' = r /\ pc' = "prompt" /\ ForgetCall

NextArg == todo' = Tail(todo) /\ UNCHANGED <<pc, call, oldpwd>>

(* Mutant: a bad argument is passed over. *)
bi_export_goes_on ==
    /\ pc = "export"
    /\ \/ /\ todo # <<>> /\ NextArg
          /\ IF valid_ident(Head(todo)) THEN env_set(KeyOf(Head(todo)), ValueOf(Head(todo)))
                                        ELSE UNCHANGED <<env, failed>>
       \/ todo = <<>> /\ Return(0) /\ UNCHANGED <<env, failed>>
    /\ UNCHANGED <<cwd, gone, lost>>

(* bi_export: the first argument that is no identifier ends it. *)
bi_export ==
    /\ pc = "export"
    /\ \/ /\ todo # <<>> /\ valid_ident(Head(todo)) /\ NextArg
          /\ env_set(KeyOf(Head(todo)), ValueOf(Head(todo)))
       \/ todo # <<>> /\ ~ valid_ident(Head(todo)) /\ Return(1) /\ UNCHANGED <<env, failed>>
       \/ todo = <<>> /\ Return(0) /\ UNCHANGED <<env, failed>>
    /\ UNCHANGED <<cwd, gone, lost>>

(* bi_unset: an argument that is no identifier is passed over. *)
bi_unset ==
    /\ pc = "unset"
    /\ \/ /\ todo # <<>> /\ NextArg
          /\ IF valid_ident(Head(todo)) THEN env_unset(Head(todo)) ELSE UNCHANGED env
       \/ todo = <<>> /\ Return(0) /\ UNCHANGED env
    /\ UNCHANGED <<cwd, gone, failed, lost>>

(* The directories: what is above one, and what a name stands for in one. *)
Slashes(p)  == {m \in DOMAIN p : p[m] = "/"}
Above(d)    == IF Max(Slashes(d)) = 1 THEN <<"/">> ELSE Prefix(d, Max(Slashes(d)) - 1)
Below(d, c) == IF d = <<"/">> THEN d \o c ELSE d \o <<"/">> \o c

(* A part begins at m. *)
Starts(s, c, m) == s[m] # c /\ (m = 1 \/ s[m - 1] = c)

(* Mutant: empty components are kept. *)
ft_split_empty(s, c) ==
    FoldLeft(LAMBDA words, x : IF x = c THEN Append(words, <<>>)
                               ELSE Front(words) \o <<Append(Last(words), x)>>,
             <<<<>>>>, s)

(* libft's ft_split: the parts of s between c's that are not empty. *)
ft_split(s, c) ==
    FoldLeft(LAMBDA words, m :
                 CASE s[m] = c                -> words
                   [] Starts(s, c, m)         -> Append(words, <<s[m]>>)
                   [] OTHER                   -> Front(words) \o <<Append(Last(words), s[m])>>,
             <<>>, [m \in DOMAIN s |-> m])

(* How a path is resolved: where its components lead, from the root or from
   the working directory, *)
IsName(c)   == c \notin {<<>>, <<".">>, <<".", ".">>}
Enter(d, c) == IF IsName(c) THEN Below(d, c) ELSE IF c = <<".", ".">> THEN Above(d) ELSE d
Steps(d, cs) == FoldLeft(LAMBDA ds, c : Append(ds, Enter(Last(ds), c)), <<d>>, cs)
Way(p)      == Steps(IF p[1] = "/" THEN <<"/">> ELSE cwd, ft_split(p, "/"))

(* and whether it gets there: what a component names has to be there still.
   A working directory that is gone can be left, and stayed in. *)
Resolve(p) ==
    IF /\ p # <<>>
       /\ \A n \in DOMAIN ft_split(p, "/") : IsName(ft_split(p, "/")[n]) => Way(p)[n + 1] \in Dirs \ gone
    THEN Last(Way(p)) ELSE Null

(* bi_cd up to chdir.  It tests argv[2] first, which is past the end of an
   argv of one word: what it finds there is the word itself, which
   expand_argv put right behind, and so a cd without argument has too many. *)
bi_cd ==
    /\ pc = "cd"
    /\ \/ Len(todo) # 1 /\ Return(1) /\ UNCHANGED cwd
       \/ Len(todo) = 1 /\ Resolve(Head(todo)) \notin Dirs /\ Return(1) /\ UNCHANGED cwd
       \/ /\ Len(todo) = 1 /\ Resolve(Head(todo)) \in Dirs
          /\ oldpwd' = IF cwd \in gone THEN <<>> ELSE cwd
          /\ cwd' = Resolve(Head(todo))
          /\ pc' = "getcwd"
          /\ UNCHANGED <<todo, call>>
    /\ UNCHANGED <<env, gone, failed, lost>>

PWD    == <<"P", "W", "D">>
OLDPWD == <<"O", "L", "D", "P", "W", "D">>

(* update_pwd: getcwd, which fails in a directory that is gone, and OLDPWD; *)
update_pwd ==
    /\ pc = "getcwd"
    /\ \/ /\ cwd \notin gone
          /\ env_set(OLDPWD, oldpwd)
          /\ pc' = "setpwd"
          /\ UNCHANGED <<todo, call, oldpwd>>
       \/ cwd \in gone /\ Return(1) /\ UNCHANGED <<env, failed>>
    /\ UNCHANGED <<cwd, gone, lost>>

(* Mutant: PWD is set to what cd was given. *)
update_pwd_end_arg ==
    /\ pc = "setpwd"
    /\ env_set(PWD, Head(todo))
    /\ Return(0)
    /\ UNCHANGED <<cwd, gone, lost>>

(* then PWD. *)
update_pwd_end ==
    /\ pc = "setpwd"
    /\ env_set(PWD, cwd)
    /\ Return(0)
    /\ UNCHANGED <<cwd, gone, lost>>

(* A builtin's find_key meets a NULL. *)
Crash ==
    /\ \/ pc = "export" /\ todo # <<>> /\ valid_ident(Head(todo)) /\ Dies(KeyOf(Head(todo)))
       \/ pc = "unset" /\ todo # <<>> /\ valid_ident(Head(todo)) /\ Dies(Head(todo))
       \/ pc = "getcwd" /\ cwd \notin gone /\ Dies(OLDPWD)
       \/ pc = "setpwd" /\ Dies(PWD)
    /\ pc' = "crashed" /\ ForgetCall
    /\ UNCHANGED <<env, ret, cwd, gone, failed, lost>>

(* Another process removes a directory that holds no other, never the root. *)
Rmdir(d) ==
    /\ d \notin gone /\ d # <<"/">>
    /\ \A e \in Dirs \ gone : Above(e) = d => e = d
    /\ gone' = gone \cup {d}
    /\ UNCHANGED <<env, pc, todo, call, cwd, oldpwd, failed, lost>>

Exited == pc \in {"exited", "crashed"} /\ UNCHANGED vars

Next ==
    \/ env_init
    \/ \E c \in Commands : Run(c)
    \/ bi_export \/ bi_unset \/ bi_cd \/ update_pwd \/ update_pwd_end
    \/ Crash
    \/ \E d \in Dirs : Rmdir(d)
    \/ Exited

Spec == Init /\ [][Next]_vars

-----------------------------------------------------------------------------
(* The array can be given to execve at any moment: it ends with NULL inside
   its allocation and holds no NULL before that, whatever was added, removed
   or grown, unless env_init had no memory for a string (env.c:43,45,
   env_getset.c:77); and only then does a lookup die of one. *)
Terminated ==
    /\ len < cap
    /\ arr[len] = Null
    /\ (\E j \in 0 .. len - 1 : arr[j] = Null) \/ pc = "crashed" => lost

Returns(name) == pc # "prompt" /\ pc' = "prompt" /\ command.name = name

(* What a series of settings, some of which found no memory, may have made of
   the variables: each is as it was or has a value that it was given. *)
PartlySet(new, old, settings) ==
    /\ DOMAIN old \subseteq DOMAIN new
    /\ DOMAIN new \subseteq DOMAIN old \cup DOMAIN settings
    /\ \A k \in DOMAIN new :
          \/ k \in DOMAIN old /\ new[k] = old[k]
          \/ k \in DOMAIN settings /\ new[k] \in settings[k]

(* When export returns, the variables are those of before, with the arguments
   up to the first bad one set, the last setting of a name winning; where
   memory ran out, a setting may be missing, though the status (0 unless an
   argument was bad) does not tell (export_unset.c:51,57), and no other
   variable has suffered. *)
Exported ==
    LET args       == command.args
        n          == Len(args) - Len(todo)
        Setting(k) == {m \in 1 .. n : KeyOf(args[m]) = k}
        Latest(S)  == CHOOSE m \in S : \A o \in S : o <= m
        keys       == {KeyOf(args[m]) : m \in 1 .. n}
    IN /\ ret' = 0 <=> \A m \in DOMAIN args : valid_ident(args[m])
       /\ ret' = 1 => n < Len(args) /\ ~ valid_ident(args[n + 1])
       /\ PartlySet(Values', before, [k \in keys |-> {ValueOf(args[m]) : m \in Setting(k)}])
       /\ ~ failed => Values' = [k \in DOMAIN before \cup keys |->
                        IF Setting(k) = {} THEN before[k] ELSE ValueOf(args[Latest(Setting(k))])]

(* export returns only with what Exported says of it (export_unset.c:48). *)
ExportEffect == [][Returns("export") => Exported]_vars

(* When unset returns, the variables that its arguments name are gone and the
   others are as they were.  An argument A=B names A if A's value begins with
   "B=", since valid_ident stops at the '=' and find_key does not. *)
Removed ==
    LET Named(k) == \E m \in DOMAIN command.args :
                       /\ valid_ident(command.args[m])
                       /\ Matches(make_kv(k, before[k]), command.args[m])
    IN Values' = [k \in {n \in DOMAIN before : ~ Named(n)} |-> before[k]]

(* unset returns only with what Removed says of it. *)
UnsetEffect == [][Returns("unset") => Removed]_vars

(* After a cd that succeeded PWD is where the shell is, by its absolute path
   whatever path was given, and OLDPWD where it was, or empty if that directory
   was gone; after one that failed both are as they were, even when chdir had
   succeeded.  Where memory ran out either may be the old one (cd.c:21,22). *)
Changed ==
    LET now == [k \in {PWD, OLDPWD} |-> IF k = PWD THEN cwd ELSE oldpwd] IN
    /\ ret' = 1 => Values' = before
    /\ PartlySet(Values', before, [k \in DOMAIN now |-> {now[k]}])
    /\ ret' = 0 /\ ~ failed' => \A k \in DOMAIN now : k \in DOMAIN Values' /\ Values'[k] = now[k]

(* cd returns only with what Changed says of it. *)
CdEffect == [][Returns("cd") => Changed]_vars

(* The array is a faithful map: no operation on one variable, whether it
   overwrites, appends, grows or shifts, disturbs another. *)
Map == INSTANCE Variables WITH
    Name  <- Seq(Char \ {"="}),
    Text  <- Str,
    bound <- Values

ImplementsVariables == Map!Spec
=============================================================================
