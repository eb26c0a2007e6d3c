----------------------------- MODULE EnvProofs -----------------------------
(***************************************************************************)
(* The environment's array is well formed at every moment, for any         *)
(* capacity, environment and commands.  The invariant behind it is where   *)
(* NULL is: everywhere from len on, with at least two places to spare, so  *)
(* that the test of env_set need only look at len and cap, and before len  *)
(* only where env_init had no memory for a string.  What lookups see of    *)
(* the array is what comes before the first NULL.                          *)
(***************************************************************************)
EXTENDS Commands, NatLemmas, SequenceTheorems

Layout ==
    /\ cap \in Nat /\ len \in Nat /\ len + 2 <= cap
    /\ arr \in [0 .. cap - 1 -> Str \cup {Null}]
    /\ \A j \in len .. cap - 1 : arr[j] = Null

(* A NULL among the strings is one that env_init put there. *)
Holes ==
    /\ (\E j \in 0 .. len - 1 : arr[j] = Null) => lost
    /\ pc = "crashed" => lost

IInv == ControlOK /\ Layout /\ Holes

(* What comes before the first NULL. *)
LEMMA BeforeIs ==
  ASSUME NEW a, NEW n \in Nat
  PROVE  /\ Before(a, n) \in 0 .. n
         /\ Before(a, n) < n => a[Before(a, n)] = Null
         /\ \A j \in 0 .. Before(a, n) - 1 : a[j] # Null
<1> DEFINE Stops == {m \in 0 .. n : m < n => a[m] = Null}
<1>1. Stops \in SUBSET Nat /\ n \in Stops
  OBVIOUS
<1>2. PICK m \in Stops : \A o \in Stops : m <= o
  BY <1>1, Least
<1>3. ASSUME NEW j \in 0 .. m - 1 PROVE a[j] # Null
  <2>1. m \in 0 .. n /\ j \in 0 .. n /\ j < m /\ j < n
    BY <1>1, <1>3
  <2>2. j \notin Stops
    <3> HIDE DEF Stops
    <3> QED BY <1>2, <2>1
  <2>3. QED
    BY <2>1, <2>2
<1>4. QED
  BY <1>1, <1>2, <1>3 DEF Before

LEMMA BeforeOnly ==
  ASSUME NEW a, NEW n \in Nat, NEW m \in 0 .. n, m < n => a[m] = Null, \A j \in 0 .. m - 1 : a[j] # Null
  PROVE  Before(a, n) = m
<1>1. PICK b : b = Before(a, n)
  OBVIOUS
<1>2. b \in 0 .. n /\ (b < n => a[b] = Null) /\ \A j \in 0 .. b - 1 : a[j] # Null
  BY <1>1, BeforeIs
<1>3. ~ b < m /\ ~ m < b
  BY <1>2
<1>4. QED
  BY <1>1, <1>2, <1>3

LEMMA BeforeZero == ASSUME NEW a PROVE Before(a, 0) = 0
  BY BeforeIs

(* The strings that lookups see. *)
SeenOK ==
    /\ Seen \in Nat /\ Seen <= len /\ (Seen < len => arr[Seen] = Null)
    /\ \A j \in 0 .. Seen - 1 : arr[j] \in Str

LEMMA SeenIs == Layout => SeenOK
  BY BeforeIs DEF Layout, SeenOK, Seen

(* find_key answers -1 or the index of an entry that is seen. *)
LEMMA FoundSeen ==
  ASSUME NEW k, Seen \in Nat
  PROVE  find_key(k) \in {-1} \cup 0 .. Seen - 1
<1>1. CASE Found(k) = {}
  BY <1>1 DEF find_key
<1>2. CASE Found(k) # {}
  <2>1. Found(k) \in SUBSET Nat /\ Found(k) \subseteq 0 .. Seen - 1
    BY DEF Found
  <2>2. \E j \in Found(k) : \A m \in Found(k) : j <= m
    BY <1>2, <2>1, Least
  <2>3. find_key(k) \in Found(k)
    BY <1>2, <2>2 DEF find_key
  <2>4. QED
    BY <2>1, <2>3
<1>3. QED
  BY <1>1, <1>2

LEMMA FoundInUse ==
  ASSUME NEW k, Layout
  PROVE  find_key(k) \in {-1} \cup 0 .. len - 1
<1>1. Seen \in Nat /\ Seen <= len /\ len \in Nat
  BY SeenIs DEF SeenOK, Layout
<1>2. QED
  BY <1>1, FoundSeen

(* The first '=' splits a string into two strings. *)
LEMMA KeyLenIs ==
  ASSUME NEW s \in Str
  PROVE  /\ KeyLen(s) \in 0 .. Len(s)
         /\ KeyLen(s) < Len(s) => s[KeyLen(s) + 1] = "="
         /\ \A m \in 1 .. KeyLen(s) : s[m] # "="
<1> DEFINE Stops == {n \in 0 .. Len(s) : n < Len(s) => s[n + 1] = "="}
<1>1. Len(s) \in Nat /\ Stops \in SUBSET Nat /\ Len(s) \in Stops
  BY LenProperties DEF Str
<1>2. PICK n \in Stops : \A m \in Stops : n <= m
  BY <1>1, Least
<1>3. ASSUME NEW m \in 1 .. n PROVE s[m] # "="
  <2>1. n \in 0 .. Len(s) /\ m - 1 \in 0 .. Len(s) /\ m - 1 < n
    BY <1>1, <1>3
  <2>2. m - 1 \notin Stops
    <3> HIDE DEF Stops
    <3> QED BY <1>2, <2>1
  <2>3. m - 1 < Len(s) /\ s[(m - 1) + 1] # "="
    BY <2>1, <2>2
  <2>4. (m - 1) + 1 = m
    BY <1>3
  <2>5. QED
    BY <2>3, <2>4
<1>4. QED
  BY <1>1, <1>2, <1>3 DEF KeyLen

LEMMA KeyValueType ==
  ASSUME NEW s \in Str
  PROVE  KeyOf(s) \in Str /\ ValueOf(s) \in Str
<1>1. Len(s) \in Nat /\ KeyLen(s) \in 0 .. Len(s) /\ \A m \in 1 .. Len(s) : s[m] \in Char
  BY KeyLenIs, LenProperties, ElementOfSeq DEF Str
<1>2. KeyOf(s) \in Str
  BY <1>1, SubSeqProperties DEF KeyOf, Prefix, Str
<1>3. ValueOf(s) \in Str
  BY <1>1, SubSeqProperties DEF ValueOf, From, Str
<1>4. QED
  BY <1>2, <1>3

LEMMA MakeKvType ==
  ASSUME NEW k \in Str, NEW v \in Str
  PROVE  make_kv(k, v) \in Str
<1>1. <<"=">> \in Seq(Char)
  BY EnvAssumption
<1>2. QED
  BY <1>1, ConcatProperties DEF make_kv, Str

-----------------------------------------------------------------------------
(* The array operations keep its layout. *)

LEMMA AppendArray ==
  ASSUME Layout, NEW e, AppendEntry(e)
  PROVE  /\ Room \in Nat /\ len + 3 <= Room /\ cap <= Room
         /\ cap' = Room /\ len' = len + 1
         /\ arr' = [j \in 0 .. Room - 1 |-> IF j < len THEN arr[j] ELSE IF j = len THEN e ELSE Null]
<1>1. Room \in Nat /\ len + 3 <= Room /\ cap <= Room
  BY DEF Room, Full, Layout
<1>2. cap' = Room /\ len' = len + 1
  BY DEF AppendEntry
<1>3. DOMAIN Grown = 0 .. Room - 1 /\ \A j \in 0 .. Room - 1 : Grown[j] = IF j < len THEN arr[j] ELSE Null
  BY DEF Grown
<1> DEFINE g == [Grown EXCEPT ![len] = e]
<1>4. g = [j \in 0 .. Room - 1 |-> IF j = len THEN e ELSE IF j < len THEN arr[j] ELSE Null]
  BY <1>1, <1>3
<1>5. arr' = [j \in 0 .. Room - 1 |-> IF j = len + 1 THEN Null ELSE g[j]]
  BY <1>4 DEF AppendEntry
<1>6. \A j \in 0 .. Room - 1 : (IF j = len + 1 THEN Null ELSE g[j])
                                = IF j < len THEN arr[j] ELSE IF j = len THEN e ELSE Null
  BY <1>4 DEF Layout
<1> HIDE DEF g
<1>7. QED
  BY <1>1, <1>2, <1>5, <1>6

LEMMA AppendLayout ==
  ASSUME Layout, NEW e \in Str \cup {Null}, AppendEntry(e)
  PROVE  Layout'
  BY AppendArray DEF Layout

(* What lookups see of a longer array. *)
LEMMA AppendSeen ==
  ASSUME Layout, NEW e, AppendEntry(e)
  PROVE  /\ \A j \in 0 .. len - 1 : arr'[j] = arr[j]
         /\ arr'[len] = e
         /\ Seen' = IF Seen = len /\ e # Null THEN len + 1 ELSE Seen
<1>1. /\ len \in Nat /\ len' = len + 1 /\ arr'[len] = e
      /\ \A j \in 0 .. len - 1 : arr'[j] = arr[j]
  BY AppendArray DEF Layout
<1>2. Seen \in 0 .. len /\ (Seen < len => arr[Seen] = Null) /\ \A j \in 0 .. Seen - 1 : arr[j] # Null
  BY <1>1, BeforeIs DEF Seen
<1>3. PICK n : n = IF Seen = len /\ e # Null THEN len + 1 ELSE Seen
  OBVIOUS
<1>4. n \in 0 .. len' /\ (n < len' => arr'[n] = Null) /\ \A j \in 0 .. n - 1 : arr'[j] # Null
  BY <1>1, <1>2, <1>3
<1>5. Before(arr', len') = n
  BY <1>1, <1>4, BeforeOnly
<1>6. QED
  BY <1>1, <1>3, <1>5 DEF Seen

(* Overwriting an entry. *)
LEMMA OverwriteSeen ==
  ASSUME Layout, NEW i \in 0 .. Seen - 1, NEW e \in Str, arr' = [arr EXCEPT ![i] = e], UNCHANGED <<len, cap>>
  PROVE  /\ Layout' /\ Seen' = Seen /\ arr'[i] = e
         /\ \A j \in 0 .. cap - 1 : j # i => arr'[j] = arr[j]
<1>1. /\ Seen \in 0 .. len /\ (Seen < len => arr[Seen] = Null) /\ \A j \in 0 .. Seen - 1 : arr[j] # Null
      /\ i \in 0 .. cap - 1 /\ i \in 0 .. len - 1 /\ e # Null
  BY BeforeIs, EnvAssumption DEF Seen, Layout
<1>2. arr'[i] = e /\ \A j \in 0 .. cap - 1 : j # i => arr'[j] = arr[j]
  BY <1>1 DEF Layout
<1>3. (Seen < len' => arr'[Seen] = Null) /\ \A j \in 0 .. Seen - 1 : arr'[j] # Null
  BY <1>1, <1>2 DEF Layout
<1>4. Before(arr', len') = Seen
  BY <1>1, <1>3, BeforeOnly DEF Layout
<1>5. Layout'
  BY <1>1 DEF Layout
<1>6. QED
  BY <1>2, <1>4, <1>5 DEF Seen

LEMMA SetLayout ==
  ASSUME Layout, NEW k \in Str, NEW v \in Str, env_set(k, v)
  PROVE  Layout'
<1>1. make_kv(k, v) \in Str /\ Seen \in Nat
  BY MakeKvType, SeenIs DEF SeenOK
<1>2. CASE find_key(k) # -1 /\ arr' = [arr EXCEPT ![find_key(k)] = make_kv(k, v)] /\ UNCHANGED <<len, cap>>
  BY <1>1, <1>2, FoundSeen, OverwriteSeen
<1>3. CASE AppendEntry(make_kv(k, v))
  BY <1>1, <1>3, AppendLayout
<1>4. CASE UNCHANGED env
  BY <1>4 DEF env, Layout
<1>5. QED
  BY <1>2, <1>3, <1>4 DEF env_set

(* The entries that an env_set does not add stay NULL or not. *)
LEMMA SetHoles ==
  ASSUME Layout, NEW k \in Str, NEW v \in Str, env_set(k, v), NEW j \in 0 .. len' - 1, arr'[j] = Null
  PROVE  j \in 0 .. len - 1 /\ arr[j] = Null
<1>1. make_kv(k, v) \in Str /\ make_kv(k, v) # Null /\ Seen \in Nat /\ Seen <= len
  BY MakeKvType, SeenIs, EnvAssumption DEF SeenOK
<1>2. CASE find_key(k) # -1 /\ arr' = [arr EXCEPT ![find_key(k)] = make_kv(k, v)] /\ UNCHANGED <<len, cap>>
  <2>1. PICK i : i = find_key(k)
    OBVIOUS
  <2>2. i \in 0 .. Seen - 1
    BY <1>1, <1>2, <2>1, FoundSeen
  <2>3. arr'[i] = make_kv(k, v) /\ len' = len /\ \A m \in 0 .. cap - 1 : m # i => arr'[m] = arr[m]
    BY <1>1, <1>2, <2>1, <2>2, OverwriteSeen
  <2>4. j # i /\ j \in 0 .. len - 1 /\ j \in 0 .. cap - 1
    BY <1>1, <2>3 DEF Layout
  <2>5. QED
    BY <2>3, <2>4
<1>3. CASE AppendEntry(make_kv(k, v))
  <2>1. len \in Nat /\ len' = len + 1 /\ arr'[len] = make_kv(k, v) /\ \A m \in 0 .. len - 1 : arr'[m] = arr[m]
    BY <1>3, AppendArray, AppendSeen DEF Layout
  <2>2. j # len /\ j \in 0 .. len - 1
    BY <1>1, <2>1
  <2>3. QED
    BY <2>1, <2>2
<1>4. CASE UNCHANGED env
  BY <1>4 DEF env
<1>5. QED
  BY <1>2, <1>3, <1>4 DEF env_set

LEMMA UnsetArray ==
  ASSUME Layout, NEW k, env_unset(k), find_key(k) # -1
  PROVE  /\ find_key(k) \in 0 .. Seen - 1 /\ Seen \in 1 .. len
         /\ len' = len - 1 /\ cap' = cap
         /\ arr' = [j \in 0 .. cap - 1 |-> IF j = len - 1 THEN Null
                       ELSE IF find_key(k) <= j /\ j < len - 1 THEN arr[j + 1] ELSE arr[j]]
<1>1. Seen \in Nat /\ Seen <= len /\ len \in Nat
  BY SeenIs DEF SeenOK, Layout
<1>2. find_key(k) \in 0 .. Seen - 1
  BY <1>1, FoundSeen
<1>3. QED
  BY <1>1, <1>2 DEF env_unset, Layout

LEMMA UnsetLayout ==
  ASSUME Layout, NEW k, env_unset(k)
  PROVE  Layout'
<1>1. CASE find_key(k) = -1
  BY <1>1 DEF env_unset, env, Layout
<1>2. CASE find_key(k) # -1
  <2>1. PICK idx : idx = find_key(k)
    OBVIOUS
  <2>2. /\ idx \in Nat /\ idx < len /\ len' = len - 1 /\ cap' = cap
        /\ arr' = [j \in 0 .. cap - 1 |-> IF j = len - 1 THEN Null
                      ELSE IF idx <= j /\ j < len - 1 THEN arr[j + 1] ELSE arr[j]]
    BY <1>2, <2>1, UnsetArray DEF Layout
  <2>3. QED
    BY <2>2 DEF Layout
<1>3. QED
  BY <1>1, <1>2

LEMMA UnsetHoles ==
  ASSUME Layout, NEW k, env_unset(k), NEW j \in 0 .. len' - 1, arr'[j] = Null
  PROVE  \E m \in 0 .. len - 1 : arr[m] = Null
<1>1. CASE find_key(k) = -1
  BY <1>1 DEF env_unset, env
<1>2. CASE find_key(k) # -1
  <2>1. PICK idx : idx = find_key(k)
    OBVIOUS
  <2>2. /\ idx \in Nat /\ idx < len /\ len' = len - 1 /\ cap' = cap
        /\ arr' = [i \in 0 .. cap - 1 |-> IF i = len - 1 THEN Null
                      ELSE IF idx <= i /\ i < len - 1 THEN arr[i + 1] ELSE arr[i]]
    BY <1>2, <2>1, UnsetArray DEF Layout
  <2>3. arr'[j] = arr[IF idx <= j THEN j + 1 ELSE j] /\ (IF idx <= j THEN j + 1 ELSE j) \in 0 .. len - 1
    BY <2>2 DEF Layout
  <2>4. QED
    BY <2>3
<1>3. QED
  BY <1>1, <1>2

(* What lookups see of a shorter array. *)
LEMMA UnsetSeen ==
  ASSUME Layout, NEW k, env_unset(k), find_key(k) # -1
  PROVE  /\ Seen' = Seen - 1
         /\ \A j \in 0 .. Seen - 2 : arr'[j] = IF j < find_key(k) THEN arr[j] ELSE arr[j + 1]
<1>1. PICK idx, n : idx = find_key(k) /\ n = Seen
  OBVIOUS
<1>2. /\ idx \in 0 .. n - 1 /\ n \in 1 .. len /\ len' = len - 1 /\ cap' = cap
      /\ arr' = [j \in 0 .. cap - 1 |-> IF j = len - 1 THEN Null
                     ELSE IF idx <= j /\ j < len - 1 THEN arr[j + 1] ELSE arr[j]]
  BY <1>1, UnsetArray
<1>3. len \in Nat /\ len + 2 <= cap /\ cap \in Nat /\ (n < len => arr[n] = Null) /\ \A j \in 0 .. n - 1 : arr[j] # Null
  BY <1>1, BeforeIs DEF Seen, Layout
<1>4. ASSUME NEW j \in 0 .. n - 2 PROVE arr'[j] = IF j < idx THEN arr[j] ELSE arr[j + 1]
  <2>1. j \in 0 .. cap - 1 /\ j # len - 1 /\ j < len - 1
    BY <1>2, <1>3, <1>4
  <2>2. QED
    BY <1>2, <2>1
<1>5. \A j \in 0 .. (n - 1) - 1 : arr'[j] # Null
  BY <1>2, <1>3, <1>4
<1>6. n - 1 < len' => arr'[n - 1] = Null
  <2>1. ASSUME n - 1 < len' PROVE n - 1 \in 0 .. cap - 1 /\ n - 1 # len - 1 /\ idx <= n - 1 /\ n - 1 < len - 1 /\ (n - 1) + 1 = n
    BY <1>2, <1>3, <2>1
  <2>2. QED
    BY <1>2, <1>3, <2>1
<1>7. len' \in Nat /\ n - 1 \in 0 .. len'
  BY <1>2, <1>3
<1>8. Before(arr', len') = n - 1
  BY <1>5, <1>6, <1>7, BeforeOnly
<1>9. QED
  BY <1>1, <1>4, <1>8 DEF Seen

-----------------------------------------------------------------------------
(* The empty array of env_init has the layout. *)
LEMMA InitIInv == Init => IInv
<1> SUFFICES ASSUME Init PROVE IInv
  OBVIOUS
<1>1. ControlOK
  BY EnvAssumption DEF Init, ControlOK
<1>2. Layout /\ Holes
  BY EnvAssumption DEF Init, Layout, Holes
<1>3. QED
  BY <1>1, <1>2 DEF IInv

LEMMA PwdType == PWD \in Str /\ OLDPWD \in Str
  BY EnvAssumption DEF PWD, OLDPWD, Str

LEMMA OldpwdType == ControlOK => oldpwd \in Str
  BY EnvAssumption, EmptySeq DEF ControlOK, Str

(* A builtin that returns, or goes on to its next argument. *)
LEMMA ReturnControl ==
  ASSUME ControlOK, NEW r \in {0, 1}, Return(r), UNCHANGED <<cwd, gone, lost>>, failed' \in BOOLEAN
  PROVE  ControlOK'
  BY EmptySeq DEF ControlOK, Return, ForgetCall

LEMMA NextArgControl ==
  ASSUME ControlOK, todo # <<>>, NextArg, UNCHANGED <<cwd, gone, lost>>, failed' \in BOOLEAN
  PROVE  ControlOK'
  BY HeadTailProperties DEF ControlOK, NextArg, call

(* What the shell looks for names a string. *)
LEMMA ArgumentTypes ==
  ASSUME ControlOK, todo # <<>>
  PROVE  /\ Head(todo) \in Str /\ Tail(todo) \in Seq(Str)
         /\ KeyOf(Head(todo)) \in Str /\ ValueOf(Head(todo)) \in Str
<1>1. Head(todo) \in Str /\ Tail(todo) \in Seq(Str)
  BY HeadTailProperties DEF ControlOK
<1>2. QED
  BY <1>1, KeyValueType

(* A step that changes the array as env_set and env_unset do keeps the layout. *)
Touched ==
    \/ UNCHANGED env
    \/ \E k \in Str, v \in Str : env_set(k, v)
    \/ \E k : env_unset(k)

LEMMA TouchedLayout ==
  ASSUME Layout, Holes, Touched, lost' = lost, pc' # "crashed"
  PROVE  Layout' /\ Holes'
<1>1. Layout'
  BY SetLayout, UnsetLayout DEF Touched, env, Layout
<1>2. ASSUME NEW j \in 0 .. len' - 1, arr'[j] = Null PROVE lost
  <2>1. \E m \in 0 .. len - 1 : arr[m] = Null
    BY <1>2, SetHoles, UnsetHoles DEF Touched, env
  <2>2. QED
    BY <2>1 DEF Holes
<1>3. QED
  BY <1>1, <1>2 DEF Holes

LEMMA BuiltinTouches ==
  ASSUME ControlOK, bi_export \/ bi_unset \/ bi_cd \/ update_pwd \/ update_pwd_end
  PROVE  Touched /\ failed' \in BOOLEAN /\ lost' = lost
<1>1. CASE bi_export
  BY <1>1, ArgumentTypes DEF bi_export, env_set, Touched, ControlOK
<1>2. CASE bi_unset
  BY <1>2 DEF bi_unset, Touched, ControlOK
<1>3. CASE bi_cd
  BY <1>3 DEF bi_cd, Touched, ControlOK
<1>4. CASE update_pwd
  BY <1>4, PwdType, OldpwdType DEF update_pwd, env_set, Touched, ControlOK
<1>5. CASE update_pwd_end
  <2>1. cwd \in Str
    BY EnvAssumption DEF ControlOK
  <2>2. QED
    BY <1>5, <2>1, PwdType DEF update_pwd_end, env_set, Touched, ControlOK
<1>6. QED
  BY <1>1, <1>2, <1>3, <1>4, <1>5

LEMMA ImportLayout ==
  ASSUME IInv, env_init
  PROVE  Layout' /\ Holes'
<1>1. ASSUME NEW e \in Str \cup {Null}, AppendEntry(e), lost' = lost \/ lost' = TRUE, e = Null => lost' = TRUE
      PROVE  Layout' /\ \A j \in 0 .. len' - 1 : arr'[j] = Null => lost'
  <2>1. Layout'
    BY <1>1, AppendLayout DEF IInv
  <2>2. ASSUME NEW j \in 0 .. len' - 1, arr'[j] = Null PROVE lost'
    <3>1. len' = len + 1 /\ len \in Nat /\ arr'[len] = e /\ \A m \in 0 .. len - 1 : arr'[m] = arr[m]
      BY <1>1, AppendArray DEF IInv, Layout
    <3>2. CASE j = len
      BY <1>1, <2>2, <3>1, <3>2
    <3>3. CASE j # len
      <4>1. j \in 0 .. len - 1 /\ arr[j] = Null
        BY <2>2, <3>1, <3>3
      <4>2. lost
        BY <4>1 DEF IInv, Holes
      <4>3. QED
        BY <1>1, <4>2
    <3>4. QED
      BY <3>2, <3>3
  <2>3. QED
    BY <2>1, <2>2
<1>2. CASE todo # <<>> /\ AppendEntry(Head(todo)) /\ UNCHANGED <<pc, lost>>
  BY <1>1, <1>2, ArgumentTypes, EnvAssumption DEF IInv, Holes
<1>3. CASE AppendEntry(Null) /\ lost' = TRUE
  BY <1>1, <1>3 DEF Holes
<1>4. CASE UNCHANGED <<env, lost>> /\ pc' # "crashed"
  BY <1>4 DEF env, IInv, Layout, Holes
<1>5. QED
  BY <1>2, <1>3, <1>4 DEF env_init

(* Every step preserves the invariant. *)
LEMMA NextIInv == IInv /\ [Next]_vars => IInv'
<1> SUFFICES ASSUME IInv, [Next]_vars PROVE IInv'
  OBVIOUS
<1>0. ControlOK /\ Layout /\ Holes
  BY DEF IInv
<1>1. CASE env_init
  <2>1. ControlOK'
    BY <1>0, <1>1, ArgumentTypes, EmptySeq DEF env_init, call, place, ControlOK
  <2>2. QED
    BY <1>1, <2>1, ImportLayout DEF IInv
<1>2. ASSUME NEW c \in Commands, Run(c) PROVE IInv'
  BY <1>0, <1>2, EnvAssumption DEF Run, env, place, ControlOK, Layout, Holes, IInv
<1>3. CASE bi_export
  <2>1. ControlOK' /\ pc' # "crashed"
    BY <1>0, <1>3, BuiltinTouches, ReturnControl, NextArgControl DEF bi_export, Return, NextArg
  <2>2. QED
    BY <1>0, <1>3, <2>1, BuiltinTouches, TouchedLayout DEF IInv
<1>4. CASE bi_unset
  <2>1. ControlOK' /\ pc' # "crashed"
    BY <1>0, <1>4, BuiltinTouches, ReturnControl, NextArgControl DEF bi_unset, Return, NextArg
  <2>2. QED
    BY <1>0, <1>4, <2>1, BuiltinTouches, TouchedLayout DEF IInv
<1>5. CASE bi_cd
  <2>1. CASE pc' = "getcwd" /\ UNCHANGED <<todo, call>> /\ Resolve(Head(todo)) \in Dirs
             /\ oldpwd' = (IF cwd \in gone THEN <<>> ELSE cwd)
             /\ cwd' = Resolve(Head(todo))
    BY <1>0, <1>5, <2>1, BuiltinTouches, TouchedLayout DEF bi_cd, call, ControlOK, IInv
  <2>2. CASE Return(1) /\ UNCHANGED cwd
    <3>1. ControlOK' /\ pc' # "crashed"
      BY <1>0, <1>5, <2>2, BuiltinTouches, ReturnControl DEF bi_cd, Return
    <3>2. QED
      BY <1>0, <1>5, <3>1, BuiltinTouches, TouchedLayout DEF IInv
  <2>3. QED
    BY <1>5, <2>1, <2>2 DEF bi_cd
<1>6. CASE update_pwd
  <2>1. ControlOK' /\ pc' # "crashed"
    <3>1. CASE Return(1)
      BY <1>0, <1>6, <3>1, BuiltinTouches, ReturnControl DEF update_pwd, Return
    <3>2. CASE pc' = "setpwd" /\ UNCHANGED <<todo, call, oldpwd>>
      BY <1>0, <1>6, <3>2, BuiltinTouches DEF update_pwd, call, ControlOK
    <3>3. QED
      BY <1>6, <3>1, <3>2 DEF update_pwd
  <2>2. QED
    BY <1>0, <1>6, <2>1, BuiltinTouches, TouchedLayout DEF IInv
<1>7. CASE update_pwd_end
  <2>1. ControlOK' /\ pc' # "crashed"
    BY <1>0, <1>7, BuiltinTouches, ReturnControl DEF update_pwd_end, Return
  <2>2. QED
    BY <1>0, <1>7, <2>1, BuiltinTouches, TouchedLayout DEF IInv
<1>8. ASSUME NEW d \in Dirs, Rmdir(d) PROVE IInv'
  BY <1>0, <1>8 DEF Rmdir, env, call, ControlOK, Layout, Holes, IInv
<1>9. CASE UNCHANGED vars
  BY <1>0, <1>9 DEF vars, env, call, place, ControlOK, Layout, Holes, IInv
<1>10. CASE Crash
  <2>1. PICK k : Dies(k)
    BY <1>10 DEF Crash
  <2>2. Seen \in Nat /\ Seen < len /\ arr[Seen] = Null
    BY <1>0, <2>1, SeenIs DEF Dies, SeenOK
  <2>3. Seen \in 0 .. len - 1
    BY <1>0, <2>2 DEF Layout
  <2>4. lost
    BY <1>0, <2>2, <2>3 DEF Holes
  <2>5. QED
    BY <1>0, <1>10, <2>4, EmptySeq DEF Crash, ForgetCall, env, ControlOK, Layout, Holes, IInv
<1>11. QED
  BY <1>1, <1>2, <1>3, <1>4, <1>5, <1>6, <1>7, <1>8, <1>9, <1>10 DEF Next, Exited

-----------------------------------------------------------------------------
(* A forked child leaves the shell's array alone. *)
LEMMA CommandsIInv == IInv /\ [CommandsNext]_<<vars, forked>> => IInv'
<1> SUFFICES ASSUME IInv, [CommandsNext]_<<vars, forked>> PROVE IInv'
  OBVIOUS
<1>1. ASSUME Quietly, failed' \in BOOLEAN PROVE IInv'
  BY <1>1 DEF Quietly, IInv, env, call, place, ControlOK, Layout, Holes
<1>2. failed \in BOOLEAN
  BY DEF IInv, ControlOK
<1>3. ASSUME NEW c \in Forked, child_exec(c) PROVE IInv'
  BY <1>1, <1>2, <1>3 DEF child_exec, NoProgram, find_exec_path, bi_env, bi_pwd
<1>4. CASE search \/ execve \/ Reap
  BY <1>1, <1>2, <1>4 DEF search, execve, Reap
<1>5. CASE Next \/ UNCHANGED vars
  BY <1>5, NextIInv
<1>6. ASSUME NEW d \in Dirs, Rmdir(d) PROVE IInv'
  BY <1>6, NextIInv DEF Next
<1>7. QED
  BY <1>3, <1>4, <1>5, <1>6 DEF CommandsNext

LEMMA CommandsInductive == CommandsSpec => []IInv
<1>1. QED
  BY InitIInv, CommandsIInv, PTL DEF CommandsSpec, CommandsInit

(* Whatever the environment at the start, the commands and the failures, the
   array that execve is given is terminated inside its allocation, and only
   env_init's failing strdup (env.c:45) puts a NULL before its end or has a
   builtin die of one. *)
THEOREM EnvTerminated == CommandsSpec => []Terminated
<1>1. IInv => Terminated
  BY DEF IInv, Layout, Holes, Terminated
<1>2. QED
  BY <1>1, CommandsInductive, PTL

(* The environment's array, and the positions of export, cd and unset in it, keep
   their types, whichever malloc fails. *)
THEOREM EnvTypeOK == CommandsSpec => []TypeOK
<1>1. IInv => TypeOK
  BY DEF IInv, Layout, TypeOK, ArrayOK
<1>2. QED
  BY <1>1, CommandsInductive, PTL

LEMMA EnvironIs == IInv => Environ = [m \in 1 .. Seen |-> arr[m - 1]]
<1> SUFFICES ASSUME IInv PROVE Environ = [m \in 1 .. Seen |-> arr[m - 1]]
  OBVIOUS
<1>1. /\ len \in Nat /\ cap \in Nat /\ len + 2 <= cap /\ DOMAIN arr = 0 .. cap - 1 /\ arr[len] = Null
  BY DEF IInv, Layout
<1>2. Seen \in 0 .. len /\ (Seen < len => arr[Seen] = Null) /\ \A m \in 0 .. Seen - 1 : arr[m] # Null
  BY <1>1, BeforeIs DEF Seen
<1>3. Seen \in DOMAIN arr /\ arr[Seen] = Null
  BY <1>1, <1>2
<1>4. ASSUME NEW j \in DOMAIN arr, arr[j] = Null, \A m \in 0 .. j - 1 : arr[m] # Null PROVE j = Seen
  <2>1. j \in Nat /\ ~ j < Seen /\ ~ Seen < j
    BY <1>1, <1>2, <1>3, <1>4
  <2>2. QED
    BY <1>2, <2>1
<1>5. (CHOOSE j \in DOMAIN arr : arr[j] = Null /\ \A m \in 0 .. j - 1 : arr[m] # Null) = Seen
  BY <1>2, <1>3, <1>4
<1>6. QED
  BY <1>5 DEF Environ

(* What execve copies, up to the first NULL, is exactly the strings that the
   shell's own lookups see, and these are all of the array unless env_init had
   no memory for one of them (env.c:45): no setting, removal or growth ever
   cuts environ short. *)
THEOREM EnvironIsComplete ==
    CommandsSpec => [](/\ Environ = [m \in 1 .. Seen |-> arr[m - 1]]
                       /\ ~ lost => Seen = len)
<1>1. ASSUME IInv, ~ lost PROVE Seen = len
  <2>1. len \in Nat /\ Seen \in 0 .. len /\ (Seen < len => arr[Seen] = Null)
    BY <1>1, BeforeIs DEF IInv, Layout, Seen
  <2>2. ~ \E j \in 0 .. len - 1 : arr[j] = Null
    BY <1>1 DEF IInv, Holes
  <2>3. QED
    BY <2>1, <2>2
<1>2. IInv => Environ = [m \in 1 .. Seen |-> arr[m - 1]] /\ (~ lost => Seen = len)
  BY <1>1, EnvironIs
<1>3. QED
  BY <1>2, CommandsInductive, PTL

-----------------------------------------------------------------------------
(* The array as a map.  A name has no '='. *)
Plain(n) == n \in Str /\ \A m \in 1 .. Len(n) : n[m] # "="

(* The entries of a name are those that find_key can find for it. *)
LEMMA KeyMatches ==
  ASSUME NEW e \in Str, NEW n, Plain(n)
  PROVE  Matches(e, n) <=> KeyLen(e) < Len(e) /\ KeyOf(e) = n
<1>1. Len(e) \in Nat /\ Len(n) \in Nat /\ \A m \in 1 .. Len(e) : e[m] \in Char
  BY LenProperties, ElementOfSeq DEF Str, Plain
<1>2. ASSUME NEW k \in 0 .. Len(e)
      PROVE  Len(Prefix(e, k)) = k /\ \A m \in 1 .. k : Prefix(e, k)[m] = e[m]
  BY <1>1, SubSeqProperties DEF Prefix
<1>3. ASSUME Matches(e, n) PROVE KeyLen(e) < Len(e) /\ KeyOf(e) = n
  <2>1. Len(n) \in 0 .. Len(e) /\ Len(n) < Len(e) /\ e[Len(n) + 1] = "=" /\ Prefix(e, Len(n)) = n
    BY <1>1, <1>3 DEF Matches
  <2>2. \A m \in 1 .. Len(n) : e[m] # "="
    BY <1>2, <2>1 DEF Plain
  <2>3. KeyLen(e) = Len(n)
    BY <1>1, <2>1, <2>2, KeyLenIs
  <2>4. QED
    BY <2>1, <2>3 DEF KeyOf
<1>4. ASSUME KeyLen(e) < Len(e), KeyOf(e) = n PROVE Matches(e, n)
  <2>1. KeyLen(e) = Len(n)
    BY <1>2, <1>4, KeyLenIs DEF KeyOf
  <2>2. QED
    BY <1>4, <2>1, KeyLenIs DEF Matches, KeyOf
<1>5. QED
  BY <1>3, <1>4

(* The key of what env_set stores is the name it was given. *)
LEMMA MakeKvMatches ==
  ASSUME NEW k \in Str, NEW v \in Str
  PROVE  Matches(make_kv(k, v), k)
<1>1. PICK e : e = make_kv(k, v)
  OBVIOUS
<1>2. PICK c : c = k \o <<"=">>
  OBVIOUS
<1>3. <<"=">> \in Seq(Char) /\ Len(<<"=">>) = 1 /\ <<"=">>[1] = "="
  BY EnvAssumption
<1>4. Len(k) \in Nat /\ Len(v) \in Nat
  BY LenProperties DEF Str
<1>5. /\ c \in Str /\ Len(c) = Len(k) + 1
      /\ \A m \in 1 .. Len(k) : c[m] = k[m]
      /\ c[Len(k) + 1] = "="
  <2>1. PICK q : q = <<"=">>
    OBVIOUS
  <2>2. q \in Seq(Char) /\ Len(q) = 1 /\ q[1] = "=" /\ c = k \o q
    BY <1>2, <1>3, <2>1
  <2>3. /\ c \in Seq(Char) /\ Len(c) = Len(k) + 1
        /\ \A i \in 1 .. Len(k) + 1 : c[i] = IF i <= Len(k) THEN k[i] ELSE q[i - Len(k)]
    <3>1. /\ c \in Seq(Char) /\ Len(c) = Len(k) + Len(q)
          /\ \A i \in 1 .. Len(k) + Len(q) : c[i] = IF i <= Len(k) THEN k[i] ELSE q[i - Len(k)]
      BY <2>2, ConcatProperties DEF Str
    <3>2. QED
      BY <2>2, <3>1
  <2>4. \A m \in 1 .. Len(k) : c[m] = k[m]
    BY <1>4, <2>3
  <2>5. c[Len(k) + 1] = q[(Len(k) + 1) - Len(k)] /\ (Len(k) + 1) - Len(k) = 1
    BY <1>4, <2>3
  <2>6. QED
    BY <2>2, <2>3, <2>4, <2>5 DEF Str
<1>6. /\ e \in Str /\ Len(e) = Len(k) + 1 + Len(v)
      /\ \A m \in 1 .. Len(k) + 1 : e[m] = c[m]
  <2>1. e = c \o v
    BY <1>1, <1>2 DEF make_kv
  <2>2. /\ e \in Seq(Char) /\ Len(e) = Len(c) + Len(v)
        /\ \A i \in 1 .. Len(c) + Len(v) : e[i] = IF i <= Len(c) THEN c[i] ELSE v[i - Len(c)]
    BY <1>5, <2>1, ConcatProperties DEF Str
  <2>3. QED
    BY <1>4, <1>5, <2>2 DEF Str
<1>7. Prefix(e, Len(k)) = k
  <2>1. PICK t : t = Prefix(e, Len(k))
    OBVIOUS
  <2>2. \A i \in 1 .. Len(k) : e[i] = k[i] /\ e[i] \in Char
    BY <1>4, <1>5, <1>6, ElementOfSeq DEF Str
  <2>3. /\ t \in Seq(Char)
        /\ Len(t) = IF 1 <= Len(k) THEN Len(k) - 1 + 1 ELSE 0
        /\ \A i \in 1 .. Len(k) - 1 + 1 : t[i] = e[1 + i - 1]
    BY <1>4, <2>1, <2>2, SubSeqProperties DEF Prefix
  <2>4. Len(t) = Len(k) /\ \A i \in 1 .. Len(k) : t[i] = k[i]
    BY <1>4, <2>2, <2>3
  <2>5. t = k
    BY <2>3, <2>4, SeqEqual DEF Str
  <2>6. QED
    BY <2>1, <2>5
<1>8. Len(e) > Len(k) /\ e[Len(k) + 1] = "="
  BY <1>4, <1>5, <1>6
<1>9. QED
  BY <1>1, <1>7, <1>8 DEF Matches

LEMMA KeyPlain ==
  ASSUME NEW e \in Str
  PROVE  Plain(KeyOf(e))
<1>1. Len(e) \in Nat /\ KeyLen(e) \in 0 .. Len(e) /\ \A m \in 1 .. Len(e) : e[m] \in Char
  BY KeyLenIs, LenProperties, ElementOfSeq DEF Str
<1>2. KeyOf(e) \in Str /\ Len(KeyOf(e)) = KeyLen(e) /\ \A m \in 1 .. KeyLen(e) : KeyOf(e)[m] = e[m]
  BY <1>1, SubSeqProperties DEF KeyOf, Prefix, Str
<1>3. QED
  BY <1>2, KeyLenIs DEF Plain

(* What the variables are, entry by entry. *)
NamesFound ==
    /\ \A n : n \in Names <=> Plain(n) /\ Found(n) # {}
    /\ \A n : Found(n) # {} => find_key(n) \in Found(n) /\ \A j \in Found(n) : find_key(n) <= j
    /\ \A n : Found(n) = {} => find_key(n) = -1
    /\ \A n \in Names : env_get(n) \in Str
    /\ \A j \in 0 .. Seen - 1 : arr[j] \in Str /\ Plain(KeyOf(arr[j]))

LEMMA LayoutNames ==
  ASSUME Layout
  PROVE  NamesFound
<1>1. Seen \in Nat /\ \A j \in 0 .. Seen - 1 : arr[j] \in Str
  BY SeenIs DEF SeenOK
<1>2. \A j \in 0 .. Seen - 1 : Plain(KeyOf(arr[j]))
  BY <1>1, KeyPlain
<1>3. \A n : n \in Names <=> Plain(n) /\ Found(n) # {}
  <2>1. ASSUME NEW n \in Names PROVE Plain(n) /\ Found(n) # {}
    <3>1. PICK j \in 0 .. Seen - 1 : KeyLen(arr[j]) < Len(arr[j]) /\ n = KeyOf(arr[j])
      BY DEF Names
    <3>2. Plain(n) /\ Matches(arr[j], n)
      BY <1>1, <1>2, <3>1, KeyMatches
    <3>3. QED
      BY <3>2 DEF Found
  <2>2. ASSUME NEW n, Plain(n), Found(n) # {} PROVE n \in Names
    <3>1. PICK j \in 0 .. Seen - 1 : Matches(arr[j], n)
      BY <2>2 DEF Found
    <3>2. KeyLen(arr[j]) < Len(arr[j]) /\ n = KeyOf(arr[j])
      BY <1>1, <2>2, <3>1, KeyMatches
    <3>3. QED
      BY <3>2 DEF Names
  <2>3. QED
    BY <2>1, <2>2
<1>4. ASSUME NEW n, Found(n) # {}
      PROVE  find_key(n) \in Found(n) /\ \A j \in Found(n) : find_key(n) <= j
  <2>1. Found(n) \in SUBSET Nat
    BY <1>1 DEF Found
  <2>2. \E j \in Found(n) : \A m \in Found(n) : j <= m
    BY <1>4, <2>1, Least
  <2>3. QED
    BY <1>4, <2>2 DEF find_key
<1>5. \A n : Found(n) = {} => find_key(n) = -1
  BY DEF find_key
<1>6. ASSUME NEW n \in Names PROVE env_get(n) \in Str
  <2>1. Plain(n) /\ find_key(n) \in Found(n)
    BY <1>3, <1>4
  <2>2. PICK e : e = arr[find_key(n)]
    OBVIOUS
  <2>3. find_key(n) # -1 /\ e \in Str /\ Len(n) \in Nat
    BY <1>1, <2>1, <2>2, LenProperties DEF Found, Plain, Str
  <2>4. Len(e) \in Nat /\ \A m \in 1 .. Len(e) : e[m] \in Char
    BY <2>3, LenProperties, ElementOfSeq DEF Str
  <2>5. From(e, Len(n) + 2) \in Str
    BY <2>3, <2>4, SubSeqProperties DEF From, Str
  <2>6. QED
    BY <2>2, <2>3, <2>5 DEF env_get
<1>7. QED
  BY <1>1, <1>2, <1>3, <1>4, <1>5, <1>6 DEF NamesFound

(* A name that an operation does not touch. *)
Same(m) == (m \in Names' <=> m \in Names) /\ (m \in Names => env_get(m)' = env_get(m))

OneName(n) == \A m : m # n => Same(m)

LEMMA SameEntries ==
  ASSUME NamesFound, NamesFound', NEW m,
         Plain(m) => Found(m)' = Found(m) /\ \A j \in Found(m) : arr'[j] = arr[j]
  PROVE  Same(m)
<1>1. CASE ~ Plain(m)
  BY <1>1 DEF NamesFound, Same
<1>2. CASE Plain(m)
  <2>1. m \in Names' <=> m \in Names
    BY <1>2 DEF NamesFound
  <2>2. find_key(m)' = find_key(m)
    BY <1>2 DEF find_key
  <2>3. m \in Names => find_key(m) \in Found(m)
    BY DEF NamesFound
  <2>4. m \in Names => env_get(m)' = env_get(m)
    BY <1>2, <2>2, <2>3 DEF env_get
  <2>5. QED
    BY <2>1, <2>4 DEF Same
<1>3. QED
  BY <1>1, <1>2

LEMMA AppendOne ==
  ASSUME Layout, NamesFound, NamesFound', NEW e \in Str, AppendEntry(e)
  PROVE  OneName(KeyOf(e))
<1>1. /\ Seen \in Nat /\ Seen <= len /\ len \in Nat
      /\ \A j \in 0 .. Seen - 1 : arr'[j] = arr[j]
  BY AppendSeen, SeenIs DEF Layout, SeenOK
<1>2. Seen' = Seen \/ (Seen' = Seen + 1 /\ arr'[Seen] = e)
  BY AppendSeen
<1>3. ASSUME NEW m, m # KeyOf(e), Plain(m)
      PROVE  Found(m)' = Found(m) /\ \A j \in Found(m) : arr'[j] = arr[j]
  <2>1. ~ Matches(e, m)
    BY <1>3, KeyMatches
  <2>2. CASE Seen' = Seen
    BY <1>1, <2>2 DEF Found
  <2>3. CASE Seen' = Seen + 1 /\ arr'[Seen] = e
    <3>1. 0 .. Seen' - 1 = (0 .. Seen - 1) \cup {Seen}
      BY <1>1, <2>3
    <3>2. QED
      BY <1>1, <2>1, <2>3, <3>1 DEF Found
  <2>4. QED
    BY <1>2, <2>2, <2>3
<1>4. QED
  BY <1>3, SameEntries DEF OneName

(* The NULL of a string that found no memory is none of the variables. *)
LEMMA AppendNone ==
  ASSUME Layout, NamesFound, NamesFound', AppendEntry(Null)
  PROVE  \A m : Same(m)
<1>1. Seen' = Seen /\ Seen \in Nat /\ Seen <= len /\ len \in Nat /\ \A j \in 0 .. Seen - 1 : arr'[j] = arr[j]
  BY AppendSeen, SeenIs DEF Layout, SeenOK
<1>2. ASSUME NEW m PROVE Found(m)' = Found(m) /\ \A j \in Found(m) : arr'[j] = arr[j]
  BY <1>1 DEF Found
<1>3. QED
  BY <1>2, SameEntries

LEMMA SetOne ==
  ASSUME Layout, NamesFound, NamesFound', NEW k, Plain(k), NEW v \in Str, env_set(k, v)
  PROVE  OneName(k)
<1>1. k \in Str /\ make_kv(k, v) \in Str /\ KeyOf(make_kv(k, v)) = k
  BY MakeKvType, MakeKvMatches, KeyMatches DEF Plain
<1>2. CASE find_key(k) # -1 /\ arr' = [arr EXCEPT ![find_key(k)] = make_kv(k, v)] /\ UNCHANGED <<len, cap>>
  <2>1. PICK i : i = find_key(k)
    OBVIOUS
  <2>2. i \in 0 .. Seen - 1 /\ Matches(arr[i], k) /\ arr[i] \in Str
    BY <1>2, <2>1 DEF NamesFound, Found
  <2>3. /\ arr'[i] = make_kv(k, v) /\ Seen' = Seen
        /\ \A j \in 0 .. Seen - 1 : j # i => arr'[j] = arr[j]
    <3>1. arr'[i] = make_kv(k, v) /\ Seen' = Seen /\ \A j \in 0 .. cap - 1 : j # i => arr'[j] = arr[j]
      BY <1>1, <1>2, <2>1, <2>2, OverwriteSeen
    <3>2. \A j \in 0 .. Seen - 1 : j \in 0 .. cap - 1
      BY SeenIs DEF Layout, SeenOK
    <3>3. QED
      BY <3>1, <3>2
  <2>4. ASSUME NEW m, m # k, Plain(m)
        PROVE  Found(m)' = Found(m) /\ \A j \in Found(m) : arr'[j] = arr[j]
    <3>1. ~ Matches(arr[i], m) /\ ~ Matches(arr'[i], m)
      BY <1>1, <2>2, <2>3, <2>4, KeyMatches
    <3>2. QED
      BY <2>3, <3>1 DEF Found
  <2>5. QED
    BY <2>4, SameEntries DEF OneName
<1>3. CASE AppendEntry(make_kv(k, v))
  BY <1>1, <1>3, AppendOne
<1>4. CASE UNCHANGED env
  BY <1>4, SameEntries DEF env, OneName, Found, Seen
<1>5. QED
  BY <1>2, <1>3, <1>4 DEF env_set

LEMMA UnsetOne ==
  ASSUME Layout, NamesFound, NamesFound', NEW k, env_unset(k)
  PROVE  OneName(KeyOf(arr[find_key(k)]))
<1>1. CASE find_key(k) = -1
  BY <1>1, SameEntries DEF env_unset, env, OneName, Found, Seen
<1>2. CASE find_key(k) # -1
  <2>1. PICK idx, n : idx = find_key(k) /\ n = Seen
    OBVIOUS
  <2>2. idx \in 0 .. n - 1 /\ n \in Nat /\ arr[idx] \in Str
    BY <1>2, <2>1, SeenIs DEF NamesFound, Found, SeenOK
  <2>3. /\ Seen' = n - 1
        /\ \A j \in 0 .. n - 2 : arr'[j] = IF j < idx THEN arr[j] ELSE arr[j + 1]
    BY <1>2, <2>1, UnsetSeen
  <2>4. ASSUME NEW m, m # KeyOf(arr[idx]), Plain(m) PROVE Same(m)
    <3>1. idx \notin Found(m)
      BY <2>1, <2>2, <2>4, KeyMatches DEF Found
    <3>2. ASSUME NEW j \in Found(m)
          PROVE  (IF j < idx THEN j ELSE j - 1) \in Found(m)' /\ arr'[IF j < idx THEN j ELSE j - 1] = arr[j]
      <4>1. j \in 0 .. n - 1 /\ Matches(arr[j], m) /\ j # idx
        BY <2>1, <3>1, <3>2 DEF Found
      <4>2. PICK i : i = IF j < idx THEN j ELSE j - 1
        OBVIOUS
      <4>3. i \in 0 .. n - 2 /\ arr'[i] = arr[j]
        BY <2>2, <2>3, <4>1, <4>2
      <4>4. i \in 0 .. Seen' - 1
        BY <2>2, <2>3, <4>3
      <4>5. QED
        BY <4>1, <4>2, <4>3, <4>4 DEF Found
    <3>3. ASSUME NEW j \in Found(m)'
          PROVE  (IF j < idx THEN j ELSE j + 1) \in Found(m)
      <4>1. j \in 0 .. Seen' - 1 /\ Matches(arr'[j], m)
        BY <3>3 DEF Found
      <4>2. j \in 0 .. n - 2 /\ arr'[j] = IF j < idx THEN arr[j] ELSE arr[j + 1]
        BY <2>2, <2>3, <4>1
      <4>3. QED
        BY <2>1, <2>2, <4>1, <4>2 DEF Found
    <3>4. m \in Names' <=> m \in Names
      BY <2>4, <3>2, <3>3 DEF NamesFound
    <3>5. ASSUME m \in Names PROVE env_get(m)' = env_get(m)
      <4>1. PICK f : f = find_key(m)
        OBVIOUS
      <4>2. PICK g : g = find_key(m)'
        OBVIOUS
      <4>3. f \in Found(m) /\ (\A j \in Found(m) : f <= j) /\ f \in 0 .. n - 1 /\ f # idx
        BY <2>1, <3>1, <3>5, <4>1 DEF NamesFound, Found
      <4>4. g \in Found(m)' /\ (\A j \in Found(m)' : g <= j) /\ g \in 0 .. n - 2
        BY <2>2, <2>3, <3>4, <3>5, <4>2 DEF NamesFound, Found
      <4>5. PICK h : h = IF f < idx THEN f ELSE f - 1
        OBVIOUS
      <4>6. h \in Found(m)' /\ arr'[h] = arr[f] /\ g <= h /\ h \in Int
        BY <2>2, <3>2, <4>3, <4>4, <4>5
      <4>7. f <= IF g < idx THEN g ELSE g + 1
        BY <3>3, <4>3, <4>4
      <4>8. g = h
        BY <2>2, <4>3, <4>4, <4>5, <4>6, <4>7
      <4>9. f # -1 /\ g # -1 /\ arr'[g] = arr[f]
        BY <2>2, <4>3, <4>4, <4>6, <4>8
      <4>10. QED
        BY <4>1, <4>2, <4>9 DEF env_get
    <3>6. QED
      BY <3>4, <3>5 DEF Same
  <2>5. QED
    BY <2>1, <2>4, SameEntries DEF OneName
<1>3. QED
  BY <1>1, <1>2

(* Every step of the shell changes one variable or none. *)
LEMMA StepOne ==
  ASSUME IInv, NamesFound, NamesFound', [CommandsNext]_<<vars, forked>>
  PROVE  \E n : OneName(n)
<1>1. Layout /\ ControlOK
  BY DEF IInv
<1>2. CASE UNCHANGED env \/ AppendEntry(Null)
  BY <1>1, <1>2, SameEntries, AppendNone DEF env, OneName, Found, Seen
<1>3. CASE AppendEntry(Head(todo)) /\ todo # <<>>
  <2>1. Head(todo) \in Str
    BY <1>1, <1>3, HeadTailProperties DEF ControlOK
  <2>2. QED
    BY <1>1, <1>3, <2>1, AppendOne
<1>4. CASE env_set(KeyOf(Head(todo)), ValueOf(Head(todo))) /\ todo # <<>>
  <2>1. Head(todo) \in Str
    BY <1>1, <1>4, HeadTailProperties DEF ControlOK
  <2>2. Plain(KeyOf(Head(todo))) /\ ValueOf(Head(todo)) \in Str
    BY <2>1, KeyPlain, KeyValueType
  <2>3. QED
    BY <1>1, <1>4, <2>2, SetOne
<1>5. CASE \E k : env_unset(k)
  BY <1>1, <1>5, UnsetOne
<1>6. CASE env_set(OLDPWD, oldpwd) \/ env_set(PWD, cwd)
  <2>1. Plain(PWD) /\ Plain(OLDPWD)
    <3>1. \A m \in 1 .. 3 : PWD[m] # "="
      BY DEF PWD
    <3>2. \A m \in 1 .. 6 : OLDPWD[m] # "="
      BY DEF OLDPWD
    <3>3. Len(PWD) = 3 /\ Len(OLDPWD) = 6
      BY DEF PWD, OLDPWD
    <3>4. QED
      BY <3>1, <3>2, <3>3, PwdType DEF Plain
  <2>2. oldpwd \in Str /\ cwd \in Str
    BY <1>1, OldpwdType, EnvAssumption DEF ControlOK
  <2>3. QED
    BY <1>1, <1>6, <2>1, <2>2, SetOne
<1>7. CASE Next
  BY <1>2, <1>3, <1>4, <1>5, <1>6, <1>7
     DEF Next, env_init, Run, bi_export, bi_unset, bi_cd, update_pwd, update_pwd_end, Rmdir, Crash, Exited, vars
<1>8. ASSUME Quietly PROVE \E n : OneName(n)
  BY <1>2, <1>8 DEF Quietly
<1>9. QED
  BY <1>2, <1>7, <1>8 DEF CommandsNext, child_exec, search, execve, Reap, Rmdir, vars

(* A change of one variable is a step of the map. *)
LEMMA OneChanges ==
  ASSUME NamesFound, NamesFound', NEW n, OneName(n), Values' # Values
  PROVE  Map!Changes(Values, Values')
<1>1. PICK old : old = Values
  OBVIOUS
<1>2. PICK new : new = Values'
  OBVIOUS
<1>3. /\ DOMAIN old = Names /\ DOMAIN new = Names' /\ old # new
      /\ old = [m \in DOMAIN old |-> old[m]] /\ new = [m \in DOMAIN new |-> new[m]]
  BY <1>1, <1>2 DEF Values
<1>4. \A m : m # n => (m \in DOMAIN new <=> m \in DOMAIN old) /\ (m \in DOMAIN old => new[m] = old[m])
  <2>1. \A m : m \in Names => old[m] = env_get(m)
    BY <1>1 DEF Values
  <2>2. \A m : m \in Names' => new[m] = env_get(m)'
    BY <1>2 DEF Values
  <2>3. QED
    BY <1>3, <2>1, <2>2 DEF OneName, Same
<1>5. CASE n \in DOMAIN new
  <2>1. DOMAIN new = DOMAIN old \cup {n}
    BY <1>4, <1>5
  <2>2. new = [m \in DOMAIN old \cup {n} |-> IF m = n THEN new[n] ELSE old[m]]
    BY <1>3, <1>4, <2>1
  <2>3. n \in Seq(Char \ {"="}) /\ new[n] \in Str
    <3>1. Plain(n) /\ env_get(n)' \in Str
      BY <1>3, <1>5 DEF NamesFound
    <3>2. Len(n) \in Nat /\ n \in [1 .. Len(n) -> Char] /\ \A m \in 1 .. Len(n) : n[m] \in Char \ {"="}
      BY <3>1, LenProperties DEF Plain, Str
    <3>3. n \in [1 .. Len(n) -> Char \ {"="}]
      BY <3>2
    <3>4. new[n] = env_get(n)'
      BY <1>2, <1>3, <1>5 DEF Values
    <3>5. QED
      BY <3>1, <3>2, <3>3, <3>4
  <2>4. QED
    BY <1>1, <1>2, <1>3, <1>5, <2>2, <2>3 DEF Map!Changes, Map!Bind
<1>6. CASE n \notin DOMAIN new /\ n \in DOMAIN old
  <2>1. DOMAIN new = DOMAIN old \ {n}
    BY <1>4, <1>6
  <2>2. new = [m \in DOMAIN old \ {n} |-> old[m]]
    BY <1>3, <1>4, <2>1
  <2>3. QED
    BY <1>1, <1>2, <1>3, <1>6, <2>2 DEF Map!Changes, Map!Drop
<1>7. CASE n \notin DOMAIN new /\ n \notin DOMAIN old
  <2>1. DOMAIN new = DOMAIN old
    BY <1>4, <1>7
  <2>2. new = old
    BY <1>3, <1>4, <1>7, <2>1
  <2>3. QED
    BY <1>3, <2>2
<1>8. QED
  BY <1>5, <1>6, <1>7

(* The environment is a map for every capacity and every sequence of commands:
   whatever is set, appended, grown, shifted or fails, at most one variable
   changes in a step (env_getset.c:57-104, env.c:37-63). *)
THEOREM EnvIsAMap == CommandsSpec => ImplementsVariables
<1>1. Init => Map!Init
  BY BeforeZero DEF Init, Map!Init, Values, Names, Seen
<1>2. IInv => NamesFound
  BY LayoutNames DEF IInv
<1>3. IInv /\ NamesFound /\ NamesFound' /\ [CommandsNext]_<<vars, forked>> => [Map!Next]_Values
  BY StepOne, OneChanges DEF Map!Next
<1>4. QED
  BY <1>1, <1>2, <1>3, CommandsInductive, PTL DEF CommandsSpec, CommandsInit, ImplementsVariables, Map!Spec

-----------------------------------------------------------------------------
(* What a setting does to the variables. *)
With(old, k, v) == [m \in DOMAIN old \cup {k} |-> IF m = k THEN v ELSE old[m]]

LEMMA MakeKvValue ==
  ASSUME NEW k \in Str, NEW v \in Str
  PROVE  From(make_kv(k, v), Len(k) + 2) = v
<1>1. PICK e : e = make_kv(k, v)
  OBVIOUS
<1>2. PICK q : q = <<"=">>
  OBVIOUS
<1>3. q \in Seq(Char) /\ Len(q) = 1
  BY <1>2, EnvAssumption
<1>4. Len(k) \in Nat /\ Len(v) \in Nat /\ \A i \in 1 .. Len(v) : v[i] \in Char
  BY LenProperties, ElementOfSeq DEF Str
<1>5. PICK c : c = k \o q
  OBVIOUS
<1>6. c \in Seq(Char) /\ Len(c) = Len(k) + 1
  <2>1. c \in Seq(Char) /\ Len(c) = Len(k) + Len(q)
    BY <1>3, <1>5, ConcatProperties DEF Str
  <2>2. QED
    BY <1>3, <2>1
<1>7. e = c \o v
  BY <1>1, <1>2, <1>5 DEF make_kv
<1>8. /\ e \in Seq(Char) /\ Len(e) = Len(c) + Len(v)
      /\ \A i \in 1 .. Len(c) + Len(v) : e[i] = IF i <= Len(c) THEN c[i] ELSE v[i - Len(c)]
  BY <1>6, <1>7, ConcatProperties DEF Str
<1>9. Len(e) = Len(k) + 1 + Len(v) /\ \A i \in 1 .. Len(v) : e[Len(k) + 1 + i] = v[i]
  <2>1. PICK K, V : K = Len(k) /\ V = Len(v)
    OBVIOUS
  <2>2. /\ K \in Nat /\ V \in Nat /\ Len(e) = K + 1 + V
        /\ \A i \in 1 .. K + 1 + V : e[i] = IF i <= K + 1 THEN c[i] ELSE v[i - (K + 1)]
    BY <1>4, <1>6, <1>8, <2>1
  <2>3. ASSUME NEW i \in 1 .. V PROVE e[K + 1 + i] = v[i]
    <3>1. K + 1 + i \in 1 .. K + 1 + V /\ ~ K + 1 + i <= K + 1 /\ (K + 1 + i) - (K + 1) = i
      BY <2>2
    <3>2. QED
      BY <2>2, <3>1
  <2>4. QED
    BY <2>1, <2>2, <2>3
<1>10. PICK t : t = From(e, Len(k) + 2)
  OBVIOUS
<1>11. \A i \in Len(k) + 2 .. Len(e) : e[i] \in Char
  <2>1. \A i \in Len(k) + 2 .. Len(e) : i \in 1 .. Len(e)
    BY <1>4
  <2>2. QED
    BY <1>8, <2>1, ElementOfSeq
<1>12. /\ t \in Seq(Char)
       /\ Len(t) = IF Len(k) + 2 <= Len(e) THEN Len(e) - (Len(k) + 2) + 1 ELSE 0
       /\ \A i \in 1 .. Len(e) - (Len(k) + 2) + 1 : t[i] = e[(Len(k) + 2) + i - 1]
  <2>1. Len(k) + 2 \in Int /\ Len(e) \in Int
    BY <1>4, <1>9
  <2>2. t = SubSeq(e, Len(k) + 2, Len(e))
    BY <1>10 DEF From
  <2>3. QED
    BY <1>11, <2>1, <2>2, SubSeqProperties
<1>13. Len(t) = Len(v)
  BY <1>4, <1>9, <1>12
<1>14. ASSUME NEW i \in 1 .. Len(v) PROVE t[i] = v[i]
  <2>1. i \in 1 .. Len(e) - (Len(k) + 2) + 1 /\ (Len(k) + 2) + i - 1 = Len(k) + 1 + i
    BY <1>4, <1>9
  <2>2. t[i] = e[(Len(k) + 2) + i - 1]
    BY <1>12, <2>1
  <2>3. QED
    BY <1>9, <2>1, <2>2
<1>15. t = v
  BY <1>12, <1>13, <1>14, SeqEqual DEF Str
<1>16. QED
  BY <1>1, <1>10, <1>15

LEMMA SetGet ==
  ASSUME Layout, NamesFound, NamesFound', NEW k, Plain(k), NEW v \in Str, env_set(k, v)
  PROVE  \/ k \in Names' /\ env_get(k)' = v /\ failed' = failed
         \/ failed' = TRUE /\ UNCHANGED env
<1>1. PICK e : e = make_kv(k, v)
  OBVIOUS
<1>2. k \in Str /\ e \in Str /\ Matches(e, k) /\ From(e, Len(k) + 2) = v
  BY <1>1, MakeKvType, MakeKvMatches, MakeKvValue DEF Plain
<1>3. ASSUME NEW i \in 0 .. Seen' - 1, arr'[i] = e, \A j \in 0 .. i - 1 : ~ Matches(arr'[j], k)
      PROVE  k \in Names' /\ env_get(k)' = v
  <2>1. i \in Found(k)'
    BY <1>2, <1>3 DEF Found
  <2>2. PICK f : f = find_key(k)'
    OBVIOUS
  <2>3. f \in Found(k)' /\ f <= i
    BY <2>1, <2>2 DEF NamesFound
  <2>4. f \in 0 .. Seen' - 1 /\ Matches(arr'[f], k)
    BY <2>3 DEF Found
  <2>5. f = i /\ f # -1
    BY <1>3, <2>3, <2>4
  <2>6. k \in Names'
    BY <2>1 DEF NamesFound
  <2>7. env_get(k)' = From(arr'[f], Len(k) + 2)
    BY <2>2, <2>5 DEF env_get
  <2>8. QED
    BY <1>2, <1>3, <2>5, <2>6, <2>7
<1>4. CASE find_key(k) # -1 /\ arr' = [arr EXCEPT ![find_key(k)] = make_kv(k, v)] /\ UNCHANGED <<len, cap, failed>>
  <2>1. PICK i : i = find_key(k)
    OBVIOUS
  <2>2. i \in 0 .. Seen - 1 /\ \A j \in Found(k) : i <= j
    BY <1>4, <2>1 DEF NamesFound, Found
  <2>3. arr'[i] = e /\ Seen' = Seen /\ \A j \in 0 .. cap - 1 : j # i => arr'[j] = arr[j]
    BY <1>1, <1>2, <1>4, <2>1, <2>2, OverwriteSeen
  <2>4. ASSUME NEW j \in 0 .. i - 1 PROVE ~ Matches(arr'[j], k)
    <3>1. j \in 0 .. Seen - 1 /\ j \in 0 .. cap - 1 /\ j # i /\ ~ i <= j
      BY <2>2, <2>4, SeenIs DEF Layout, SeenOK
    <3>2. j \notin Found(k)
      BY <2>2, <3>1
    <3>3. QED
      BY <2>3, <3>1, <3>2 DEF Found
  <2>5. QED
    BY <1>3, <1>4, <2>2, <2>3, <2>4
<1>5. CASE find_key(k) = -1 /\ ~ Dies(k) /\ AppendEntry(e) /\ UNCHANGED failed
  <2>1. Seen = len /\ Seen \in Nat /\ e # Null
    BY <1>2, <1>5, SeenIs, EnvAssumption DEF Dies, SeenOK, Layout
  <2>2. Seen' = Seen + 1 /\ arr'[Seen] = e /\ \A j \in 0 .. Seen - 1 : arr'[j] = arr[j]
    BY <1>5, <2>1, AppendSeen
  <2>3. Found(k) = {}
    <3>1. Found(k) # {} => find_key(k) \in 0 .. Seen - 1
      BY DEF NamesFound, Found
    <3>2. QED
      BY <1>5, <2>1, <3>1
  <2>4. \A j \in 0 .. Seen - 1 : ~ Matches(arr'[j], k)
    BY <2>2, <2>3 DEF Found
  <2>5. Seen \in 0 .. Seen' - 1
    BY <2>1, <2>2
  <2>6. QED
    BY <1>3, <1>5, <2>2, <2>4, <2>5
<1>6. CASE failed' = TRUE /\ UNCHANGED env
  BY <1>6
<1>7. QED
  BY <1>1, <1>4, <1>5, <1>6 DEF env_set

LEMMA SameValues == UNCHANGED env => Values' = Values
  BY DEF env, Values, Names, env_get, find_key, Found, Seen

LEMMA SetValues ==
  ASSUME Layout, NamesFound, NamesFound', NEW k, Plain(k), NEW v \in Str, env_set(k, v)
  PROVE  \/ Values' = With(Values, k, v) /\ failed' = failed
         \/ Values' = Values /\ failed' = TRUE
<1>1. OneName(k)
  BY SetOne
<1>2. CASE k \in Names' /\ env_get(k)' = v /\ failed' = failed
  <2>1. Names' = Names \cup {k}
    BY <1>1, <1>2 DEF OneName, Same
  <2>2. ASSUME NEW m \in Names' PROVE env_get(m)' = IF m = k THEN v ELSE Values[m]
    BY <1>1, <1>2, <2>1, <2>2 DEF OneName, Same, Values
  <2>3. DOMAIN Values = Names
    BY DEF Values
  <2>4. Values' = [m \in Names' |-> env_get(m)']
    BY DEF Values
  <2>5. QED
    BY <1>2, <2>1, <2>2, <2>3, <2>4 DEF With
<1>3. QED
  BY <1>2, SetGet, SameValues

-----------------------------------------------------------------------------
(* A call in progress: what the arguments looked at so far have made of the
   variables there were when it began. *)
Done == Len(command.args) - Len(todo)

Rest == /\ Len(todo) <= Len(command.args)
        /\ \A m \in 1 .. Len(todo) : todo[m] = command.args[Done + m]

Setting(args, n, k) == {m \in 1 .. n : KeyOf(args[m]) = k}
SetKeys(args, n)    == {KeyOf(args[m]) : m \in 1 .. n}
LastOf(S)           == CHOOSE m \in S : \A o \in S : o <= m

MayBe(args, n)    == [k \in SetKeys(args, n) |-> {ValueOf(args[m]) : m \in Setting(args, n, k)}]
Settled(old, args, n) ==
    [k \in DOMAIN old \cup SetKeys(args, n) |->
        IF Setting(args, n, k) = {} THEN old[k] ELSE ValueOf(args[LastOf(Setting(args, n, k))])]

LEMMA SetKeysNext ==
  ASSUME NEW args, NEW n \in Nat
  PROVE  /\ SetKeys(args, n + 1) = SetKeys(args, n) \cup {KeyOf(args[n + 1])}
         /\ \A k : Setting(args, n + 1, k) = Setting(args, n, k) \cup (IF k = KeyOf(args[n + 1]) THEN {n + 1} ELSE {})
         /\ \A k : Setting(args, n, k) # {} <=> k \in SetKeys(args, n)
         /\ LastOf(Setting(args, n + 1, KeyOf(args[n + 1]))) = n + 1
<1>1. \A m : m \in 1 .. n + 1 <=> m \in 1 .. n \/ m = n + 1
  OBVIOUS
<1>2. SetKeys(args, n + 1) = SetKeys(args, n) \cup {KeyOf(args[n + 1])}
  BY <1>1 DEF SetKeys
<1>3. \A k : Setting(args, n + 1, k) = Setting(args, n, k) \cup (IF k = KeyOf(args[n + 1]) THEN {n + 1} ELSE {})
  BY <1>1 DEF Setting
<1>4. \A k : Setting(args, n, k) # {} <=> k \in SetKeys(args, n)
  BY DEF Setting, SetKeys
<1>5. LastOf(Setting(args, n + 1, KeyOf(args[n + 1]))) = n + 1
  <2> DEFINE S == Setting(args, n + 1, KeyOf(args[n + 1]))
  <2>1. n + 1 \in S /\ \A m \in S : m \in 1 .. n + 1
    BY <1>3 DEF Setting
  <2> HIDE DEF S
  <2>2. (\A o \in S : o <= n + 1) /\ \A m \in S : (\A o \in S : o <= m) => m = n + 1
    BY <2>1
  <2>3. LastOf(S) = n + 1
    BY <2>1, <2>2 DEF LastOf
  <2>4. QED
    BY <2>3 DEF S
<1>6. QED
  BY <1>2, <1>3, <1>4, <1>5

LEMMA SettledNext ==
  ASSUME NEW old, NEW args, NEW n \in Nat
  PROVE  Settled(old, args, n + 1) = With(Settled(old, args, n), KeyOf(args[n + 1]), ValueOf(args[n + 1]))
<1>1. PICK a : a = args[n + 1]
  OBVIOUS
<1>2. DOMAIN Settled(old, args, n) = DOMAIN old \cup SetKeys(args, n)
  BY DEF Settled
<1>3. DOMAIN old \cup SetKeys(args, n + 1) = (DOMAIN old \cup SetKeys(args, n)) \cup {KeyOf(a)}
  BY <1>1, SetKeysNext
<1>4. ASSUME NEW k \in DOMAIN old \cup SetKeys(args, n + 1)
      PROVE  (IF Setting(args, n + 1, k) = {} THEN old[k] ELSE ValueOf(args[LastOf(Setting(args, n + 1, k))]))
             = IF k = KeyOf(a) THEN ValueOf(a) ELSE Settled(old, args, n)[k]
  <2>1. CASE k = KeyOf(a)
    <3>1. Setting(args, n + 1, k) # {} /\ LastOf(Setting(args, n + 1, k)) = n + 1
      BY <1>1, <2>1, SetKeysNext
    <3>2. QED
      BY <1>1, <2>1, <3>1
  <2>2. CASE k # KeyOf(a)
    <3>1. Setting(args, n + 1, k) = Setting(args, n, k) /\ k \in DOMAIN old \cup SetKeys(args, n)
      <4>1. Setting(args, n + 1, k) = Setting(args, n, k) \cup (IF k = KeyOf(a) THEN {n + 1} ELSE {})
        BY <1>1, SetKeysNext
      <4>2. QED
        BY <1>3, <1>4, <2>2, <4>1
    <3>2. QED
      BY <2>2, <3>1 DEF Settled
  <2>3. QED
    BY <2>1, <2>2
<1>5. QED
  BY <1>1, <1>2, <1>3, <1>4 DEF Settled, With

LEMMA PartlyNext ==
  ASSUME NEW new, NEW old, NEW args, NEW n \in Nat, PartlySet(new, old, MayBe(args, n))
  PROVE  /\ PartlySet(new, old, MayBe(args, n + 1))
         /\ PartlySet(With(new, KeyOf(args[n + 1]), ValueOf(args[n + 1])), old, MayBe(args, n + 1))
<1>1. PICK a : a = args[n + 1]
  OBVIOUS
<1>2. PICK was : was = MayBe(args, n)
  OBVIOUS
<1>3. PICK is : is = MayBe(args, n + 1)
  OBVIOUS
<1>4. DOMAIN is = DOMAIN was \cup {KeyOf(a)}
  BY <1>1, <1>2, <1>3, SetKeysNext DEF MayBe
<1>5. ASSUME NEW k \in DOMAIN was PROVE was[k] \subseteq is[k]
  <2>1. Setting(args, n, k) \subseteq Setting(args, n + 1, k)
    BY SetKeysNext
  <2>2. was[k] = {ValueOf(args[m]) : m \in Setting(args, n, k)} /\ is[k] = {ValueOf(args[m]) : m \in Setting(args, n + 1, k)}
    BY <1>2, <1>3, <1>4, <1>5 DEF MayBe
  <2>3. QED
    BY <2>1, <2>2
<1>6. ValueOf(a) \in is[KeyOf(a)]
  <2>1. n + 1 \in Setting(args, n + 1, KeyOf(a))
    <3>1. n + 1 \in 1 .. n + 1
      OBVIOUS
    <3>2. QED
      BY <1>1, <3>1 DEF Setting
  <2>2. is[KeyOf(a)] = {ValueOf(args[m]) : m \in Setting(args, n + 1, KeyOf(a))}
    BY <1>3, <1>4 DEF MayBe
  <2>3. QED
    BY <1>1, <2>1, <2>2
<1>7. PartlySet(new, old, was)
  BY <1>2
<1>8. PartlySet(new, old, is)
  BY <1>4, <1>5, <1>7 DEF PartlySet
<1>9. PartlySet(With(new, KeyOf(a), ValueOf(a)), old, is)
  BY <1>4, <1>6, <1>8 DEF PartlySet, With
<1>10. QED
  BY <1>1, <1>3, <1>8, <1>9

(* The shell acts while no child is there. *)
Waiting == stage # "idle" => pc = "prompt"

(* The builtin that the shell is in is the one that was called. *)
Calls ==
    /\ pc \in {"init", "prompt"} => command = NoCommand
    /\ pc \in {"export", "unset", "cd", "getcwd", "setpwd"} =>
          command \in Commands /\ command.name = IF pc \in {"getcwd", "setpwd"} THEN "cd" ELSE pc

(* A step that is no step of a builtin. *)
Aside == /\ UNCHANGED <<env, pc, todo, call, cwd, oldpwd>>
         /\ failed' = failed \/ pc = "prompt"

LEMMA StepCases ==
  ASSUME [CommandsNext]_<<vars, forked>>, Waiting
  PROVE  \/ Aside \/ env_init \/ \E c \in Commands : Run(c)
         \/ bi_export \/ bi_unset \/ bi_cd \/ update_pwd \/ update_pwd_end \/ Crash
<1>1. CASE UNCHANGED vars
  BY <1>1 DEF vars, place, Aside
<1>2. ASSUME Quietly, pc = "prompt" PROVE Aside
  BY <1>2 DEF Quietly, place, Aside
<1>3. ASSUME NEW d \in Dirs, Rmdir(d) PROVE Aside
  BY <1>3 DEF Rmdir, Aside
<1>4. ASSUME NEW c \in Forked, child_exec(c) PROVE Aside
  BY <1>2, <1>4 DEF child_exec
<1>5. CASE search \/ execve \/ Reap
  BY <1>2, <1>5 DEF search, execve, Reap, Waiting
<1>6. CASE Next
  BY <1>1, <1>3, <1>6 DEF Next, Exited
<1>7. QED
  BY <1>1, <1>3, <1>4, <1>5, <1>6 DEF CommandsNext, vars

LEMMA WaitingNext ==
  ASSUME Waiting, [CommandsNext]_<<vars, forked>>
  PROVE  Waiting'
<1>1. CASE UNCHANGED <<vars, forked>>
  BY <1>1 DEF vars, forked, Waiting
<1>2. CASE stage = "idle" /\ Next /\ UNCHANGED forked
  BY <1>2 DEF forked, Waiting
<1>3. ASSUME NEW c \in Forked, child_exec(c) PROVE Waiting'
  BY <1>3 DEF child_exec, Quietly, Waiting
<1>4. CASE search \/ execve \/ Reap
  BY <1>4 DEF search, execve, Reap, Quietly, Waiting
<1>5. ASSUME NEW d \in Dirs, Rmdir(d), UNCHANGED forked PROVE Waiting'
  BY <1>5 DEF Rmdir, forked, Waiting
<1>6. QED
  BY <1>1, <1>2, <1>3, <1>4, <1>5 DEF CommandsNext

LEMMA CallsNext ==
  ASSUME Calls, Waiting, [CommandsNext]_<<vars, forked>>
  PROVE  Calls'
<1>1. ASSUME NEW r, Return(r) PROVE Calls'
  BY <1>1 DEF Return, ForgetCall, Calls
<1>2. CASE Aside
  BY <1>2 DEF Aside, call, Calls
<1>3. CASE env_init
  BY <1>3 DEF env_init, call, Calls
<1>4. ASSUME NEW c \in Commands, Run(c) PROVE Calls'
  BY <1>4, EnvAssumption DEF Run, Calls
<1>5. CASE bi_export
  BY <1>1, <1>5 DEF bi_export, NextArg, call, Calls
<1>6. CASE bi_unset
  BY <1>1, <1>6 DEF bi_unset, NextArg, call, Calls
<1>7. CASE bi_cd
  BY <1>1, <1>7 DEF bi_cd, call, Calls
<1>8. CASE update_pwd
  BY <1>1, <1>8 DEF update_pwd, call, Calls
<1>9. CASE update_pwd_end
  BY <1>1, <1>9 DEF update_pwd_end
<1>10. CASE Crash
  BY <1>10 DEF Crash, Calls
<1>11. QED
  BY <1>2, <1>3, <1>4, <1>5, <1>6, <1>7, <1>8, <1>9, <1>10, StepCases

-----------------------------------------------------------------------------
(* export. *)
Exporting ==
    pc = "export" =>
        /\ command \in Commands /\ command.name = "export" /\ Rest
        /\ \A m \in 1 .. Done : valid_ident(command.args[m])
        /\ PartlySet(Values, before, MayBe(command.args, Done))
        /\ ~ failed => Values = Settled(before, command.args, Done)

(* A call that begins has looked at none of its arguments. *)
LEMMA RunRest ==
  ASSUME NEW c \in Commands, Run(c)
  PROVE  Done' = 0 /\ Rest' /\ command' = c /\ before' = Values /\ Values' = Values
<1>1. command' = c /\ todo' = c.args /\ before' = Values /\ UNCHANGED env
  BY DEF Run
<1>2. PICK n : n = Len(c.args)
  OBVIOUS
<1>3. n \in Nat
  BY <1>2, EnvAssumption, LenProperties
<1>4. Done' = 0
  BY <1>1, <1>2, <1>3 DEF Done
<1>5. \A m \in 1 .. n : c.args[m] = c.args[0 + m]
  BY <1>3
<1>6. Rest'
  BY <1>1, <1>2, <1>3, <1>4, <1>5 DEF Rest
<1>7. QED
  BY <1>1, <1>4, <1>6, SameValues

(* The argument that is looked at, and what is left after it. *)
LEMMA NextArgRest ==
  ASSUME ControlOK, command \in Commands, Rest, todo # <<>>, NextArg
  PROVE  /\ Done \in Nat /\ Done' = Done + 1 /\ Done + 1 <= Len(command.args)
         /\ Head(todo) = command.args[Done + 1] /\ Head(todo) \in Str
         /\ Rest' /\ command' = command
<1>1. PICK n : n = Len(command.args)
  OBVIOUS
<1>2. PICK t : t = Len(todo)
  OBVIOUS
<1>3. n \in Nat /\ t \in Nat \ {0} /\ t <= n
  <2>1. todo \in Seq(Str) /\ command.args \in Seq(Str)
    BY EnvAssumption DEF ControlOK
  <2>2. n \in Nat
    BY <1>1, <2>1, LenProperties
  <2>3. t \in Nat \ {0}
    BY <1>2, <2>1, EmptySeq
  <2>4. QED
    BY <1>1, <1>2, <2>2, <2>3 DEF Rest
<1>4. todo' = Tail(todo) /\ command' = command
  BY DEF NextArg, call
<1>5. /\ Head(todo) \in Str /\ Len(todo') = t - 1
      /\ \A m \in 1 .. t - 1 : todo'[m] = todo[m + 1]
  BY <1>2, <1>4, HeadTailProperties DEF ControlOK
<1>6. Head(todo) = todo[1]
  BY DEF ControlOK
<1>7. Done = n - t /\ Done' = n - (t - 1)
  BY <1>1, <1>2, <1>4, <1>5 DEF Done
<1>8. \A m \in 1 .. t : todo[m] = command.args[(n - t) + m]
  BY <1>2, <1>7 DEF Rest
<1>9. \A m \in 1 .. t - 1 : todo'[m] = command.args[(n - (t - 1)) + m]
  <2>1. ASSUME NEW m \in 1 .. t - 1 PROVE todo'[m] = command.args[(n - (t - 1)) + m]
    <3>1. m + 1 \in 1 .. t /\ (n - t) + (m + 1) = (n - (t - 1)) + m
      BY <1>3
    <3>2. QED
      BY <1>5, <1>8, <3>1
  <2>2. QED
    BY <2>1
<1>10. Rest'
  BY <1>1, <1>3, <1>4, <1>5, <1>7, <1>9 DEF Rest
<1>11. 1 \in 1 .. t /\ (n - t) + 1 \in Nat
  BY <1>3
<1>12. Head(todo) = command.args[Done + 1]
  BY <1>6, <1>7, <1>8, <1>11
<1>13. Done \in Nat /\ Done' = Done + 1 /\ Done + 1 <= n
  BY <1>3, <1>7
<1>14. QED
  BY <1>1, <1>4, <1>5, <1>10, <1>12, <1>13

LEMMA ExportingNext ==
  ASSUME IInv, NamesFound, NamesFound', Waiting, Exporting, [CommandsNext]_<<vars, forked>>
  PROVE  Exporting'
<1>1. CASE pc' # "export"
  BY <1>1 DEF Exporting
<1>2. CASE Aside
  <2>1. Values' = Values
    BY <1>2, SameValues DEF Aside
  <2>2. failed' = failed \/ pc # "export"
    BY <1>2 DEF Aside
  <2>3. QED
    BY <1>2, <2>1, <2>2 DEF Aside, call, Exporting, Rest, Done
<1>3. ASSUME NEW c \in Commands, Run(c), pc' = "export" PROVE Exporting'
  <2>1. Done' = 0 /\ Rest' /\ command' = c /\ before' = Values /\ Values' = Values
    BY <1>3, RunRest
  <2>2. c.name = "export"
    BY <1>3 DEF Run
  <2>3. Settled(Values, command.args, 0)' = Values' /\ PartlySet(Values, Values, MayBe(command.args, 0))'
    <3>1. SetKeys(c.args, 0) = {} /\ \A k : Setting(c.args, 0, k) = {}
      BY DEF SetKeys, Setting
    <3>2. PICK old : old = Values
      OBVIOUS
    <3>3. old = [k \in DOMAIN old |-> old[k]]
      BY <3>2 DEF Values
    <3>4. Settled(old, c.args, 0) = old /\ PartlySet(old, old, MayBe(c.args, 0))
      BY <3>1, <3>3 DEF Settled, PartlySet, MayBe
    <3>5. QED
      BY <2>1, <3>2, <3>4
  <2>4. \A m \in 1 .. 0 : FALSE
    OBVIOUS
  <2>5. QED
    BY <1>3, <2>1, <2>2, <2>3, <2>4 DEF Exporting
<1>4. CASE bi_export /\ pc' = "export"
  <2>1. todo # <<>> /\ valid_ident(Head(todo)) /\ NextArg /\ env_set(KeyOf(Head(todo)), ValueOf(Head(todo)))
    BY <1>4 DEF bi_export, Return
  <2>2. pc = "export" /\ pc' = pc /\ before' = before
    BY <1>4, <2>1 DEF bi_export, NextArg, call
  <2>3. PICK args : args = command.args
    OBVIOUS
  <2>4. PICK n : n = Done
    OBVIOUS
  <2>5. PICK a : a = Head(todo)
    OBVIOUS
  <2>6. /\ n \in Nat /\ Done' = n + 1 /\ a = args[n + 1] /\ a \in Str
        /\ Rest' /\ command' = command /\ command \in Commands /\ command.name = "export"
    BY <2>1, <2>2, <2>3, <2>4, <2>5, NextArgRest DEF IInv, Exporting
  <2>7. \A m \in 1 .. n + 1 : valid_ident(args[m])
    <3>1. \A m \in 1 .. n + 1 : m \in 1 .. n \/ m = n + 1
      BY <2>6
    <3>2. \A m \in 1 .. n : valid_ident(args[m])
      BY <2>2, <2>3, <2>4 DEF Exporting
    <3>3. QED
      BY <2>1, <2>5, <2>6, <3>1, <3>2
  <2>8. Plain(KeyOf(a)) /\ ValueOf(a) \in Str
    BY <2>6, KeyPlain, KeyValueType
  <2>9. \/ Values' = With(Values, KeyOf(a), ValueOf(a)) /\ failed' = failed
        \/ Values' = Values /\ failed' = TRUE
    BY <2>1, <2>5, <2>8, SetValues DEF IInv
  <2>10. PICK old : old = before
    OBVIOUS
  <2>11. PartlySet(Values, old, MayBe(args, n)) /\ (~ failed => Values = Settled(old, args, n))
    BY <2>2, <2>3, <2>4, <2>10 DEF Exporting
  <2>12. PICK val : val = Values
    OBVIOUS
  <2>13. PICK new : new = Values'
    OBVIOUS
  <2>14. PartlySet(new, old, MayBe(args, n + 1))
    <3>1. PartlySet(val, old, MayBe(args, n))
      BY <2>11, <2>12
    <3>2. new = val \/ new = With(val, KeyOf(args[n + 1]), ValueOf(args[n + 1]))
      BY <2>6, <2>9, <2>12, <2>13
    <3>3. QED
      BY <2>6, <3>1, <3>2, PartlyNext
  <2>15. ~ failed' => new = Settled(old, args, n + 1)
    <3>1. Settled(old, args, n + 1) = With(Settled(old, args, n), KeyOf(a), ValueOf(a))
      BY <2>6, SettledNext
    <3>2. QED
      BY <2>9, <2>11, <2>13, <3>1
  <2>16. QED
    BY <2>2, <2>3, <2>6, <2>7, <2>10, <2>13, <2>14, <2>15 DEF Exporting
<1>5. CASE env_init \/ bi_unset \/ bi_cd \/ update_pwd \/ update_pwd_end \/ Crash
  BY <1>1, <1>5 DEF env_init, bi_unset, bi_cd, update_pwd, update_pwd_end, Crash, NextArg, Return
<1>6. QED
  BY <1>1, <1>2, <1>3, <1>4, <1>5, StepCases

(* Which builtin it is that returns. *)
LEMMA ReturnCases ==
  ASSUME Waiting, Calls, [CommandsNext]_<<vars, forked>>, NEW name, Returns(name)
  PROVE  /\ name = "export" => bi_export
         /\ name = "unset" => bi_unset
         /\ name = "cd" => bi_cd \/ update_pwd \/ update_pwd_end
<1>1. CASE Aside \/ \E c \in Commands : Run(c)
  BY <1>1 DEF Aside, Run, Returns
<1>2. CASE env_init
  <2>1. NoCommand.name = "none"
    BY DEF NoCommand
  <2>2. name = "none"
    BY <1>2, <2>1 DEF env_init, Returns, Calls
  <2>3. QED
    BY <2>2
<1>3. CASE bi_export
  BY <1>3 DEF bi_export, Returns, Calls
<1>4. CASE bi_unset
  BY <1>4 DEF bi_unset, Returns, Calls
<1>5. CASE bi_cd
  BY <1>5 DEF bi_cd, Returns, Calls
<1>6. CASE update_pwd
  BY <1>6 DEF update_pwd, Returns, Calls
<1>7. CASE update_pwd_end
  BY <1>7 DEF update_pwd_end, Returns, Calls
<1>8. CASE Crash
  BY <1>8 DEF Crash, Returns
<1>9. QED
  BY <1>1, <1>2, <1>3, <1>4, <1>5, <1>6, <1>7, <1>8, StepCases

(* How far a call had come when it returned. *)
LEMMA ReturnRest ==
  ASSUME ControlOK, command \in Commands, Rest
  PROVE  /\ Done \in Nat /\ Done <= Len(command.args) /\ DOMAIN command.args = 1 .. Len(command.args)
         /\ Len(command.args) \in Nat
         /\ todo = <<>> => Done = Len(command.args)
         /\ todo # <<>> => Done < Len(command.args) /\ Head(todo) = command.args[Done + 1]
<1>1. PICK n : n = Len(command.args)
  OBVIOUS
<1>2. PICK t : t = Len(todo)
  OBVIOUS
<1>3. n \in Nat /\ DOMAIN command.args = 1 .. n
  BY <1>1, EnvAssumption, LenProperties
<1>4. t \in Nat /\ (todo = <<>> => t = 0) /\ (todo # <<>> => t # 0)
  BY <1>2, EmptySeq, LenProperties DEF ControlOK
<1>5. t <= n /\ Done = n - t /\ \A m \in 1 .. t : todo[m] = command.args[(n - t) + m]
  BY <1>1, <1>2 DEF Rest, Done
<1>6. ASSUME todo # <<>> PROVE Head(todo) = command.args[Done + 1]
  <2>1. Head(todo) = todo[1]
    BY <1>6 DEF ControlOK
  <2>2. 1 \in 1 .. t
    BY <1>4, <1>6
  <2>3. QED
    BY <1>5, <2>1, <2>2
<1>7. QED
  BY <1>1, <1>3, <1>4, <1>5, <1>6

LEMMA ExportReturns ==
  ASSUME IInv, Waiting, Calls, Exporting, [CommandsNext]_<<vars, forked>>
  PROVE  Returns("export") => Exported
<1> SUFFICES ASSUME Returns("export")
             PROVE  /\ ret' = 0 <=> \A m \in DOMAIN command.args : valid_ident(command.args[m])
                    /\ ret' = 1 => Done < Len(command.args) /\ ~ valid_ident(command.args[Done + 1])
                    /\ PartlySet(Values', before, MayBe(command.args, Done))
                    /\ ~ failed => Values' = Settled(before, command.args, Done)
  BY DEF Exported, Done, MayBe, Settled, SetKeys, Setting, LastOf
<1>1. bi_export /\ pc = "export" /\ pc' # "export"
  BY ReturnCases DEF Returns, bi_export
<1>2. \/ todo # <<>> /\ ~ valid_ident(Head(todo)) /\ ret' = 1 /\ UNCHANGED <<env, failed>>
      \/ todo = <<>> /\ ret' = 0 /\ UNCHANGED <<env, failed>>
  BY <1>1 DEF bi_export, NextArg, Return
<1>3. /\ command \in Commands /\ Rest
      /\ \A m \in 1 .. Done : valid_ident(command.args[m])
      /\ PartlySet(Values, before, MayBe(command.args, Done))
      /\ ~ failed => Values = Settled(before, command.args, Done)
  BY <1>1 DEF Exporting
<1>4. Values' = Values
  BY <1>2, SameValues
<1>5. ret' = 0 <=> \A m \in DOMAIN command.args : valid_ident(command.args[m])
  <2>1. CASE todo = <<>>
    BY <1>2, <1>3, <2>1, ReturnRest DEF IInv
  <2>2. CASE todo # <<>>
    <3>1. Done \in Nat /\ Done < Len(command.args) /\ Head(todo) = command.args[Done + 1]
          /\ DOMAIN command.args = 1 .. Len(command.args) /\ Len(command.args) \in Nat
      BY <1>3, <2>2, ReturnRest DEF IInv
    <3>2. Done + 1 \in DOMAIN command.args
      BY <3>1
    <3>3. QED
      BY <1>2, <2>2, <3>1, <3>2
  <2>3. QED
    BY <2>1, <2>2
<1>6. ret' = 1 => Done < Len(command.args) /\ ~ valid_ident(command.args[Done + 1])
  BY <1>2, <1>3, ReturnRest DEF IInv
<1>7. QED
  BY <1>3, <1>4, <1>5, <1>6

-----------------------------------------------------------------------------
(* cd. *)
ChangingDir ==
    /\ pc = "cd" => todo = command.args
    /\ pc \in {"cd", "getcwd"} => Values = before /\ failed = FALSE
    /\ pc = "setpwd" =>
          /\ PartlySet(Values, before, [k \in {OLDPWD} |-> {oldpwd}])
          /\ ~ failed => OLDPWD \in DOMAIN Values /\ Values[OLDPWD] = oldpwd

LEMMA PwdPlain == Plain(PWD) /\ Plain(OLDPWD) /\ PWD # OLDPWD
<1>1. \A m \in 1 .. 3 : PWD[m] # "="
  BY DEF PWD
<1>2. \A m \in 1 .. 6 : OLDPWD[m] # "="
  BY DEF OLDPWD
<1>3. Len(PWD) = 3 /\ Len(OLDPWD) = 6
  BY DEF PWD, OLDPWD
<1>4. QED
  BY <1>1, <1>2, <1>3, PwdType DEF Plain

LEMMA ChangingDirNext ==
  ASSUME IInv, NamesFound, NamesFound', Waiting, Calls, ChangingDir, [CommandsNext]_<<vars, forked>>
  PROVE  ChangingDir'
<1>1. CASE pc' \notin {"cd", "getcwd", "setpwd"}
  BY <1>1 DEF ChangingDir
<1>2. CASE Aside /\ pc # "prompt"
  <2>1. Values' = Values
    BY <1>2, SameValues DEF Aside
  <2>2. QED
    BY <1>2, <2>1 DEF Aside, call, ChangingDir
<1>3. ASSUME NEW c \in Commands, Run(c), pc' = "cd" PROVE ChangingDir'
  <2>1. command' = c /\ before' = Values /\ Values' = Values
    BY <1>3, RunRest
  <2>2. QED
    BY <1>3, <2>1 DEF Run, ChangingDir
<1>4. CASE bi_cd /\ pc' = "getcwd" /\ UNCHANGED call
  <2>1. pc = "cd" /\ UNCHANGED env /\ failed' = failed /\ Len(todo) = 1
    BY <1>4 DEF bi_cd, Return
  <2>2. Values' = Values
    BY <2>1, SameValues
  <2>3. QED
    BY <1>4, <2>1, <2>2 DEF call, ChangingDir
<1>5. CASE update_pwd /\ pc' = "setpwd"
  <2>1. pc = "getcwd" /\ env_set(OLDPWD, oldpwd) /\ UNCHANGED <<call, oldpwd>>
    BY <1>5 DEF update_pwd, Return
  <2>2. \/ Values' = With(Values, OLDPWD, oldpwd) /\ failed' = failed
        \/ Values' = Values /\ failed' = TRUE
    BY <2>1, SetValues, PwdPlain, OldpwdType DEF IInv
  <2>3. Values = before
    BY <2>1 DEF ChangingDir
  <2>4. PICK old : old = Values
    OBVIOUS
  <2>5. PICK new : new = Values'
    OBVIOUS
  <2>6. PartlySet(new, old, [k \in {OLDPWD} |-> {oldpwd}])
    BY <2>2, <2>4, <2>5 DEF PartlySet, With
  <2>7. ~ failed' => OLDPWD \in DOMAIN new /\ new[OLDPWD] = oldpwd
    BY <2>2, <2>4, <2>5 DEF With
  <2>8. QED
    BY <1>5, <2>1, <2>3, <2>4, <2>5, <2>6, <2>7 DEF call, ChangingDir
<1>6. CASE env_init \/ bi_export \/ bi_unset \/ update_pwd_end \/ Crash
  BY <1>1, <1>6 DEF env_init, bi_export, bi_unset, update_pwd_end, Crash, NextArg, Return
<1>7. CASE bi_cd \/ update_pwd
  BY <1>1, <1>4, <1>5, <1>7 DEF bi_cd, update_pwd, Return
<1>8. CASE Aside /\ pc = "prompt"
  BY <1>1, <1>8 DEF Aside
<1>9. ASSUME NEW c \in Commands, Run(c) PROVE ChangingDir'
  BY <1>1, <1>3, <1>9, EnvAssumption DEF Run
<1>10. QED
  BY <1>2, <1>6, <1>7, <1>8, <1>9, StepCases

LEMMA CdReturns ==
  ASSUME IInv, NamesFound, NamesFound', Waiting, Calls, ChangingDir, [CommandsNext]_<<vars, forked>>
  PROVE  Returns("cd") => Changed
<1> DEFINE now == [k \in {PWD, OLDPWD} |-> IF k = PWD THEN cwd ELSE oldpwd]
<1> SUFFICES ASSUME Returns("cd")
             PROVE  /\ ret' = 1 => Values' = before
                    /\ PartlySet(Values', before, [k \in DOMAIN now |-> {now[k]}])
                    /\ ret' = 0 /\ ~ failed' => \A k \in DOMAIN now : k \in DOMAIN Values' /\ Values'[k] = now[k]
  BY DEF Changed
<1>1. PICK old : old = before
  OBVIOUS
<1>2. PICK new : new = Values'
  OBVIOUS
<1>3. DOMAIN now = {PWD, OLDPWD} /\ now[PWD] = cwd /\ now[OLDPWD] = oldpwd
  BY PwdPlain
<1>4. CASE ret' = 1 /\ UNCHANGED env /\ pc \in {"cd", "getcwd"}
  <2>1. new = old
    BY <1>1, <1>2, <1>4, SameValues DEF ChangingDir
  <2>2. PartlySet(new, old, [k \in DOMAIN now |-> {now[k]}])
    BY <2>1 DEF PartlySet
  <2>3. QED
    BY <1>1, <1>2, <1>4, <2>1, <2>2
<1>5. CASE update_pwd_end
  <2>1. pc = "setpwd" /\ env_set(PWD, cwd) /\ ret' = 0 /\ cwd \in Str
    BY <1>5, EnvAssumption DEF update_pwd_end, Return, IInv, ControlOK
  <2>2. \/ Values' = With(Values, PWD, cwd) /\ failed' = failed
        \/ Values' = Values /\ failed' = TRUE
    BY <2>1, SetValues, PwdPlain DEF IInv
  <2>3. PICK mid : mid = Values
    OBVIOUS
  <2>4. /\ PartlySet(mid, old, [k \in {OLDPWD} |-> {oldpwd}])
        /\ ~ failed => OLDPWD \in DOMAIN mid /\ mid[OLDPWD] = oldpwd
    BY <1>1, <2>1, <2>3 DEF ChangingDir
  <2>5. (new = With(mid, PWD, cwd) /\ failed' = failed) \/ (new = mid /\ failed' = TRUE)
    BY <1>2, <2>2, <2>3
  <2> DEFINE both == [k \in DOMAIN now |-> {now[k]}]
  <2>6. DOMAIN both = {PWD, OLDPWD} /\ both[PWD] = {cwd} /\ both[OLDPWD] = {oldpwd}
    BY <1>3
  <2> HIDE DEF both
  <2>7. PartlySet(mid, old, both)
    BY <2>4, <2>6 DEF PartlySet
  <2>8. PartlySet(new, old, both)
    BY <2>5, <2>6, <2>7 DEF PartlySet, With
  <2>9. ~ failed' => PWD \in DOMAIN new /\ new[PWD] = cwd /\ OLDPWD \in DOMAIN new /\ new[OLDPWD] = oldpwd
    BY <2>4, <2>5, PwdPlain DEF With
  <2>10. QED
    <3> HIDE DEF now
    <3>1. PartlySet(new, old, [k \in DOMAIN now |-> {now[k]}])
      BY <2>8 DEF both
    <3> QED
      BY <1>1, <1>2, <1>3, <2>1, <2>4, <2>9, <3>1
<1>6. CASE bi_cd \/ update_pwd
  BY <1>4, <1>6 DEF bi_cd, update_pwd, Return, Returns
<1>7. QED
  BY <1>5, <1>6, ReturnCases

-----------------------------------------------------------------------------
(* No name is set twice. *)
IsSet(s) == KeyLen(s) < Len(s)
Unique   == \A n : Plain(n) => \A i, j \in Found(n) : i = j

LEMMA SetUnique ==
  ASSUME Layout, NamesFound, Unique, NEW k, Plain(k), NEW v \in Str, env_set(k, v)
  PROVE  Unique'
<1>1. PICK e : e = make_kv(k, v)
  OBVIOUS
<1>2. e \in Str /\ KeyOf(e) = k /\ Matches(e, k)
  BY <1>1, MakeKvType, MakeKvMatches, KeyMatches DEF Plain
<1>3. CASE find_key(k) # -1 /\ arr' = [arr EXCEPT ![find_key(k)] = e] /\ UNCHANGED <<len, cap>>
  <2>1. PICK i : i = find_key(k)
    OBVIOUS
  <2>2. i \in 0 .. Seen - 1 /\ Matches(arr[i], k) /\ arr[i] \in Str
    BY <1>3, <2>1 DEF NamesFound, Found
  <2>3. arr'[i] = e /\ Seen' = Seen /\ \A j \in 0 .. Seen - 1 : j # i => arr'[j] = arr[j]
    <3>1. arr'[i] = e /\ Seen' = Seen /\ \A j \in 0 .. cap - 1 : j # i => arr'[j] = arr[j]
      BY <1>2, <1>3, <2>1, <2>2, OverwriteSeen
    <3>2. \A j \in 0 .. Seen - 1 : j \in 0 .. cap - 1
      BY SeenIs DEF Layout, SeenOK
    <3>3. QED
      BY <3>1, <3>2
  <2>4. ASSUME NEW m, Plain(m) PROVE Found(m)' = Found(m)
    <3>1. Matches(arr[i], m) <=> Matches(arr'[i], m)
      BY <1>2, <2>2, <2>3, <2>4, KeyMatches
    <3>2. QED
      BY <2>3, <3>1 DEF Found
  <2>5. QED
    BY <2>4 DEF Unique
<1>4. CASE find_key(k) = -1 /\ ~ Dies(k) /\ AppendEntry(e)
  <2>1. Seen = len /\ Seen \in Nat /\ e # Null
    BY <1>2, <1>4, SeenIs, EnvAssumption DEF Dies, SeenOK, Layout
  <2>2. Seen' = Seen + 1 /\ arr'[Seen] = e /\ \A j \in 0 .. Seen - 1 : arr'[j] = arr[j]
    BY <1>4, <2>1, AppendSeen
  <2>3. Found(k) = {}
    <3>1. Found(k) # {} => find_key(k) \in 0 .. Seen - 1
      BY DEF NamesFound, Found
    <3>2. QED
      BY <1>4, <2>1, <3>1
  <2>4. ASSUME NEW m, Plain(m) PROVE Found(m)' = IF m = k THEN {Seen} ELSE Found(m)
    <3>1. 0 .. Seen' - 1 = (0 .. Seen - 1) \cup {Seen}
      BY <2>1, <2>2
    <3>2. Matches(e, m) <=> m = k
      BY <1>2, <2>4, KeyMatches
    <3>3. Found(m)' = Found(m) \cup (IF m = k THEN {Seen} ELSE {})
      BY <2>2, <3>1, <3>2 DEF Found
    <3>4. QED
      BY <2>3, <3>3
  <2>5. QED
    BY <2>4 DEF Unique
<1>5. CASE UNCHANGED env
  BY <1>5 DEF env, Unique, Found, Seen
<1>6. QED
  BY <1>1, <1>3, <1>4, <1>5 DEF env_set

(* What env_unset leaves are entries that were there, none of them twice. *)
LEMMA UnsetShift ==
  ASSUME Layout, NEW k, env_unset(k), find_key(k) # -1, NEW idx, idx = find_key(k), NEW n, n = Seen
  PROVE  /\ idx \in 0 .. n - 1 /\ Seen' = n - 1 /\ n \in Nat
         /\ \A j \in 0 .. n - 2 : arr'[j] = IF j < idx THEN arr[j] ELSE arr[j + 1]
<1>1. n \in Nat
  BY SeenIs DEF SeenOK
<1>2. QED
  BY <1>1, UnsetArray, UnsetSeen

LEMMA UnsetUnique ==
  ASSUME Layout, Unique, NEW k, env_unset(k)
  PROVE  Unique'
<1>1. CASE find_key(k) = -1
  BY <1>1 DEF env_unset, env, Unique, Found, Seen
<1>2. CASE find_key(k) # -1
  <2>1. PICK idx, n : idx = find_key(k) /\ n = Seen
    OBVIOUS
  <2>2. /\ idx \in 0 .. n - 1 /\ Seen' = n - 1 /\ n \in Nat
        /\ \A j \in 0 .. n - 2 : arr'[j] = IF j < idx THEN arr[j] ELSE arr[j + 1]
    BY <1>2, <2>1, UnsetShift
  <2>3. ASSUME NEW m, NEW j \in Found(m)' PROVE (IF j < idx THEN j ELSE j + 1) \in Found(m) /\ j \in Int
    <3>1. j \in 0 .. Seen' - 1 /\ Matches(arr'[j], m)
      BY <2>3 DEF Found
    <3>2. j \in 0 .. n - 2 /\ arr'[j] = IF j < idx THEN arr[j] ELSE arr[j + 1]
      BY <2>2, <3>1
    <3>3. QED
      BY <2>1, <2>2, <3>1, <3>2 DEF Found
  <2>4. ASSUME NEW m, Plain(m), NEW i \in Found(m)', NEW j \in Found(m)' PROVE i = j
    <3>1. PICK i1 : i1 = IF i < idx THEN i ELSE i + 1
      OBVIOUS
    <3>2. PICK j1 : j1 = IF j < idx THEN j ELSE j + 1
      OBVIOUS
    <3>3. i1 \in Found(m) /\ j1 \in Found(m) /\ i \in Int /\ j \in Int
      BY <2>3, <2>4, <3>1, <3>2
    <3>4. i1 = j1
      BY <2>4, <3>3 DEF Unique
    <3>5. QED
      BY <2>2, <3>1, <3>2, <3>3, <3>4
  <2>5. QED
    BY <2>4 DEF Unique
<1>3. QED
  BY <1>1, <1>2

(* Two entries that one argument names have one name. *)
LEMMA MatchesOneName ==
  ASSUME NEW e \in Str, NEW f \in Str, NEW a \in Str, Matches(e, a), Matches(f, a)
  PROVE  KeyOf(e) = KeyOf(f)
<1>1. PICK n : n = Len(a)
  OBVIOUS
<1>2. /\ n \in Nat /\ Len(e) \in Nat /\ Len(f) \in Nat /\ n < Len(e) /\ n < Len(f)
      /\ (\A m \in 1 .. Len(e) : e[m] \in Char) /\ (\A m \in 1 .. Len(f) : f[m] \in Char)
      /\ e[n + 1] = "=" /\ f[n + 1] = "=" /\ Prefix(e, n) = a /\ Prefix(f, n) = a
  BY <1>1, LenProperties, ElementOfSeq DEF Str, Matches
<1>3. \A m \in 1 .. n : e[m] = a[m] /\ f[m] = a[m]
  <2>1. \A m \in 1 .. n : Prefix(e, n)[m] = e[m] /\ Prefix(f, n)[m] = f[m]
    BY <1>2, SubSeqProperties DEF Prefix
  <2>2. QED
    BY <1>2, <2>1
<1>4. \A m \in 1 .. n + 1 : e[m] = f[m]
  BY <1>2, <1>3
<1>5. PICK i, j : i = KeyLen(e) /\ j = KeyLen(f)
  OBVIOUS
<1>6. /\ i \in 0 .. Len(e) /\ (i < Len(e) => e[i + 1] = "=") /\ (\A m \in 1 .. i : e[m] # "=")
      /\ j \in 0 .. Len(f) /\ (j < Len(f) => f[j + 1] = "=") /\ (\A m \in 1 .. j : f[m] # "=")
  BY <1>5, KeyLenIs
<1>7. i <= n /\ j <= n
  BY <1>2, <1>6
<1>8. i = j
  <2>1. e[i + 1] = "=" /\ f[j + 1] = "=" /\ i + 1 \in 1 .. n + 1 /\ j + 1 \in 1 .. n + 1
    BY <1>2, <1>6, <1>7
  <2>2. f[i + 1] = "=" /\ e[j + 1] = "="
    BY <1>4, <2>1
  <2>3. ~ (i + 1 \in 1 .. j) /\ ~ (j + 1 \in 1 .. i)
    BY <1>6, <2>2
  <2>4. QED
    BY <1>6, <2>3
<1>9. PICK u, v : u = KeyOf(e) /\ v = KeyOf(f)
  OBVIOUS
<1>10. /\ u \in Seq(Char) /\ Len(u) = i /\ \A m \in 1 .. i : u[m] = e[m]
       /\ v \in Seq(Char) /\ Len(v) = i /\ \A m \in 1 .. i : v[m] = f[m]
  <2>1. u = SubSeq(e, 1, i) /\ v = SubSeq(f, 1, i)
    BY <1>5, <1>8, <1>9 DEF KeyOf, Prefix
  <2>2. i \in Int /\ (\A m \in 1 .. i : e[m] \in Char) /\ (\A m \in 1 .. i : f[m] \in Char)
    BY <1>2, <1>6, <1>7
  <2>3. u \in Seq(Char) /\ Len(u) = (IF 1 <= i THEN i - 1 + 1 ELSE 0) /\ \A m \in 1 .. i - 1 + 1 : u[m] = e[1 + m - 1]
    BY <2>1, <2>2, SubSeqProperties
  <2>4. v \in Seq(Char) /\ Len(v) = (IF 1 <= i THEN i - 1 + 1 ELSE 0) /\ \A m \in 1 .. i - 1 + 1 : v[m] = f[1 + m - 1]
    BY <2>1, <2>2, SubSeqProperties
  <2>5. QED
    BY <1>6, <2>3, <2>4
<1>11. \A m \in 1 .. i : u[m] = v[m]
  <2>1. \A m \in 1 .. i : m \in 1 .. n + 1
    BY <1>2, <1>6, <1>7
  <2>2. QED
    BY <1>4, <1>10, <2>1
<1>12. u = v
  BY <1>10, <1>11, SeqEqual
<1>13. QED
  BY <1>9, <1>12

(* An entry is its name, '=' and its value. *)
LEMMA EntryIs ==
  ASSUME NEW e \in Str, NEW n, Plain(n), Matches(e, n)
  PROVE  e = make_kv(n, From(e, Len(n) + 2))
<1>1. PICK k : k = Len(n)
  OBVIOUS
<1>2. PICK L : L = Len(e)
  OBVIOUS
<1>3. /\ k \in Nat /\ L \in Nat /\ k < L /\ \A m \in 1 .. L : e[m] \in Char
      /\ e[k + 1] = "=" /\ SubSeq(e, 1, k) = n
  BY <1>1, <1>2, LenProperties, ElementOfSeq DEF Str, Matches, Plain, Prefix
<1>4. \A m \in 1 .. k : n[m] = e[m]
  BY <1>3, SubSeqProperties
<1>5. PICK v : v = From(e, k + 2)
  OBVIOUS
<1>6. v \in Seq(Char) /\ Len(v) = L - (k + 1) /\ \A m \in 1 .. L - (k + 1) : v[m] = e[k + 1 + m]
  <2>1. k + 2 \in Int /\ L \in Int /\ \A m \in k + 2 .. L : e[m] \in Char
    BY <1>3
  <2>2. /\ v \in Seq(Char) /\ Len(v) = (IF k + 2 <= L THEN L - (k + 2) + 1 ELSE 0)
        /\ \A m \in 1 .. L - (k + 2) + 1 : v[m] = e[(k + 2) + m - 1]
    BY <1>2, <1>5, <2>1, SubSeqProperties DEF From
  <2>3. Len(v) = L - (k + 1)
    BY <1>3, <2>2
  <2>4. ASSUME NEW m \in 1 .. L - (k + 1) PROVE v[m] = e[k + 1 + m]
    <3>1. m \in 1 .. L - (k + 2) + 1 /\ (k + 2) + m - 1 = k + 1 + m
      BY <1>3
    <3>2. QED
      BY <2>2, <3>1
  <2>5. QED
    BY <2>2, <2>3, <2>4
<1>7. PICK q : q = <<"=">>
  OBVIOUS
<1>8. q \in Seq(Char) /\ Len(q) = 1 /\ q[1] = "="
  BY <1>7, EnvAssumption
<1>9. PICK c : c = n \o q
  OBVIOUS
<1>10. c \in Seq(Char) /\ Len(c) = k + 1 /\ \A m \in 1 .. k + 1 : c[m] = e[m]
  <2>1. /\ c \in Seq(Char) /\ Len(c) = Len(n) + Len(q)
        /\ \A m \in 1 .. Len(n) + Len(q) : c[m] = IF m <= Len(n) THEN n[m] ELSE q[m - Len(n)]
    BY <1>8, <1>9, ConcatProperties DEF Plain, Str
  <2>2. Len(c) = k + 1 /\ \A m \in 1 .. k + 1 : c[m] = IF m <= k THEN n[m] ELSE q[m - k]
    BY <1>1, <1>8, <2>1
  <2>3. ASSUME NEW m \in 1 .. k + 1 PROVE c[m] = e[m]
    <3>1. CASE m <= k
      BY <1>4, <2>2, <3>1
    <3>2. CASE m = k + 1
      <4>1. m - k = 1 /\ ~ m <= k
        BY <1>3, <3>2
      <4>2. QED
        BY <1>3, <1>8, <2>2, <3>2, <4>1
    <3>3. QED
      BY <1>3, <3>1, <3>2
  <2>4. QED
    BY <2>1, <2>2, <2>3
<1>11. PICK w : w = c \o v
  OBVIOUS
<1>12. w \in Seq(Char) /\ Len(w) = L /\ \A m \in 1 .. L : w[m] = e[m]
  <2>1. /\ w \in Seq(Char) /\ Len(w) = Len(c) + Len(v)
        /\ \A m \in 1 .. Len(c) + Len(v) : w[m] = IF m <= Len(c) THEN c[m] ELSE v[m - Len(c)]
    BY <1>6, <1>10, <1>11, ConcatProperties
  <2>2. Len(w) = L /\ \A m \in 1 .. L : w[m] = IF m <= k + 1 THEN c[m] ELSE v[m - (k + 1)]
    BY <1>3, <1>6, <1>10, <2>1
  <2>3. ASSUME NEW m \in 1 .. L PROVE w[m] = e[m]
    <3>1. CASE m <= k + 1
      BY <1>3, <1>10, <2>2, <3>1
    <3>2. CASE ~ m <= k + 1
      <4>1. m - (k + 1) \in 1 .. L - (k + 1) /\ k + 1 + (m - (k + 1)) = m
        BY <1>3, <3>2
      <4>2. QED
        BY <1>6, <2>2, <3>2, <4>1
    <3>3. QED
      BY <3>1, <3>2
  <2>4. QED
    BY <2>1, <2>2, <2>3
<1>13. e = w
  BY <1>2, <1>12, SeqEqual DEF Str
<1>14. QED
  BY <1>1, <1>5, <1>7, <1>9, <1>11, <1>13 DEF make_kv

(* With one entry to a name, every variable is its entry. *)
LEMMA EntryOf ==
  ASSUME NamesFound, Unique, NEW j \in 0 .. Seen - 1, NEW n, Plain(n), Matches(arr[j], n)
  PROVE  n \in Names /\ arr[j] = make_kv(n, Values[n]) /\ find_key(n) = j
<1>1. j \in Found(n) /\ n \in Names /\ arr[j] \in Str
  BY DEF Found, NamesFound
<1>2. find_key(n) = j
  BY <1>1 DEF NamesFound, Unique
<1>3. j # -1
  OBVIOUS
<1>4. env_get(n) = From(arr[j], Len(n) + 2)
  BY <1>2, <1>3 DEF env_get
<1>5. Values[n] = env_get(n)
  BY <1>1 DEF Values
<1>6. arr[j] = make_kv(n, From(arr[j], Len(n) + 2))
  BY <1>1, EntryIs
<1>7. QED
  BY <1>1, <1>2, <1>4, <1>5, <1>6

Without(old, a) == [n \in {m \in DOMAIN old : ~ Matches(make_kv(m, old[m]), a)} |-> old[n]]

LEMMA UnsetValues ==
  ASSUME Layout, NamesFound, NamesFound', Unique, NEW a \in Str, env_unset(a)
  PROVE  Values' = Without(Values, a)
<1>1. PICK old : old = Values
  OBVIOUS
<1>2. DOMAIN old = Names /\ old = [n \in DOMAIN old |-> old[n]]
  BY <1>1 DEF Values
<1>3. ASSUME NEW n \in Names
      PROVE  /\ find_key(n) \in 0 .. Seen - 1 /\ arr[find_key(n)] \in Str /\ Plain(n)
             /\ arr[find_key(n)] = make_kv(n, old[n])
  <2>1. Plain(n) /\ find_key(n) \in Found(n)
    BY DEF NamesFound
  <2>2. PICK j : j = find_key(n)
    OBVIOUS
  <2>3. j \in 0 .. Seen - 1 /\ Matches(arr[j], n) /\ arr[j] \in Str
    BY <2>1, <2>2 DEF Found, NamesFound
  <2>4. QED
    BY <1>1, <2>1, <2>2, <2>3, EntryOf
<1>4. CASE find_key(a) = -1
  <2>1. Found(a) = {}
    <3>1. Found(a) # {} => find_key(a) \in 0 .. Seen - 1
      BY DEF NamesFound, Found
    <3>2. QED
      BY <1>4, <3>1
  <2>2. \A n \in Names : ~ Matches(make_kv(n, old[n]), a)
    BY <1>3, <2>1 DEF Found
  <2>3. Values' = old
    BY <1>1, <1>4, SameValues DEF env_unset
  <2>4. Without(old, a) = old
    BY <1>2, <2>2 DEF Without
  <2>5. QED
    BY <1>1, <2>3, <2>4
<1>5. CASE find_key(a) # -1
  <2>1. PICK idx : idx = find_key(a)
    OBVIOUS
  <2>2. PICK k : k = KeyOf(arr[idx])
    OBVIOUS
  <2>3. OneName(k)
    BY <2>1, <2>2, UnsetOne
  <2>4. idx \in 0 .. Seen - 1 /\ Matches(arr[idx], a) /\ arr[idx] \in Str /\ Plain(k)
    BY <1>5, <2>1, <2>2 DEF NamesFound, Found
  <2>5. Matches(arr[idx], k)
    <3>1. PICK e : e = arr[idx]
      OBVIOUS
    <3>2. KeyLen(e) < Len(e)
      <4>1. e \in Str /\ e[Len(a) + 1] = "=" /\ Len(a) < Len(e) /\ Len(a) \in Nat /\ Len(e) \in Nat
        BY <2>4, <3>1, LenProperties DEF Matches, Str
      <4>2. KeyLen(e) \in 0 .. Len(e) /\ \A m \in 1 .. KeyLen(e) : e[m] # "="
        BY <4>1, KeyLenIs
      <4>3. ~ (Len(a) + 1 \in 1 .. KeyLen(e))
        BY <4>1, <4>2
      <4>4. QED
        BY <4>1, <4>2, <4>3
    <3>3. QED
      BY <2>2, <2>4, <3>1, <3>2, KeyMatches
  <2>6. k \in Names /\ arr[idx] = make_kv(k, old[k])
    BY <1>1, <2>4, <2>5, EntryOf
  <2>7. k \notin Names'
    <3>0. PICK n : n = Seen
      OBVIOUS
    <3>1. /\ Seen' = n - 1 /\ n \in Nat
          /\ \A j \in 0 .. n - 2 : arr'[j] = IF j < idx THEN arr[j] ELSE arr[j + 1]
      BY <1>5, <2>1, <3>0, UnsetShift
    <3>2. ASSUME NEW j \in Found(k)' PROVE FALSE
      <4>1. j \in 0 .. Seen' - 1 /\ Matches(arr'[j], k)
        BY <3>2 DEF Found
      <4>2. PICK i : i = IF j < idx THEN j ELSE j + 1
        OBVIOUS
      <4>3. i \in 0 .. Seen - 1 /\ i # idx /\ arr'[j] = arr[i]
        BY <2>4, <3>0, <3>1, <4>1, <4>2
      <4>4. i \in Found(k) /\ idx \in Found(k)
        BY <2>4, <2>5, <4>1, <4>3 DEF Found
      <4>5. QED
        BY <2>4, <4>3, <4>4 DEF Unique
    <3>3. QED
      BY <3>2 DEF NamesFound
  <2>8. ASSUME NEW n \in Names PROVE Matches(make_kv(n, old[n]), a) <=> n = k
    <3>1. PICK f : f = arr[find_key(n)]
      OBVIOUS
    <3>2. f \in Str /\ Plain(n) /\ f = make_kv(n, old[n])
      BY <1>3, <3>1
    <3>3. ASSUME Matches(f, a) PROVE n = k
      <4>1. KeyOf(f) = k
        BY <2>2, <2>4, <3>2, <3>3, MatchesOneName
      <4>2. Matches(f, n)
        BY <3>1, <3>2 DEF NamesFound, Found
      <4>3. QED
        BY <3>2, <4>1, <4>2, KeyMatches
    <3>4. QED
      BY <2>4, <2>6, <3>2, <3>3
  <2>9. Names' = Names \ {k}
    BY <2>3, <2>6, <2>7 DEF OneName, Same
  <2>10. PICK new : new = Values'
    OBVIOUS
  <2>11. DOMAIN new = Names' /\ new = [n \in DOMAIN new |-> new[n]] /\ \A n \in Names' : new[n] = env_get(n)'
    BY <2>10 DEF Values
  <2>12. \A n \in Names' : new[n] = old[n]
    BY <1>1, <2>3, <2>9, <2>11 DEF OneName, Same, Values
  <2>13. {m \in DOMAIN old : ~ Matches(make_kv(m, old[m]), a)} = DOMAIN new
    BY <1>2, <2>8, <2>9, <2>11
  <2>14. new = Without(old, a)
    BY <2>11, <2>12, <2>13 DEF Without
  <2>15. QED
    BY <1>1, <2>10, <2>14
<1>6. QED
  BY <1>4, <1>5

-----------------------------------------------------------------------------
(* unset. *)
NamedBy(old, args, n, k) == \E m \in 1 .. n : valid_ident(args[m]) /\ Matches(make_kv(k, old[k]), args[m])
Left(old, args, n)       == [k \in {m \in DOMAIN old : ~ NamedBy(old, args, n, m)} |-> old[k]]

Unsetting == pc = "unset" => Rest /\ Values = Left(before, command.args, Done)

LEMMA LeftNext ==
  ASSUME NEW old, NEW args, NEW n \in Nat
  PROVE  Left(old, args, n + 1) = IF valid_ident(args[n + 1]) THEN Without(Left(old, args, n), args[n + 1])
                                                               ELSE Left(old, args, n)
<1>1. \A m : m \in 1 .. n + 1 <=> m \in 1 .. n \/ m = n + 1
  OBVIOUS
<1>2. \A k : NamedBy(old, args, n + 1, k) <=>
              \/ NamedBy(old, args, n, k)
              \/ valid_ident(args[n + 1]) /\ Matches(make_kv(k, old[k]), args[n + 1])
  BY <1>1 DEF NamedBy
<1>3. CASE valid_ident(args[n + 1])
  <2>1. PICK mid : mid = Left(old, args, n)
    OBVIOUS
  <2>2. DOMAIN mid = {m \in DOMAIN old : ~ NamedBy(old, args, n, m)} /\ \A m \in DOMAIN mid : mid[m] = old[m]
    BY <2>1 DEF Left
  <2>3. {m \in DOMAIN mid : ~ Matches(make_kv(m, mid[m]), args[n + 1])}
          = {m \in DOMAIN old : ~ NamedBy(old, args, n + 1, m)}
    BY <1>2, <1>3, <2>2
  <2>4. Without(mid, args[n + 1]) = Left(old, args, n + 1)
    BY <2>2, <2>3 DEF Without, Left
  <2>5. QED
    BY <1>3, <2>1, <2>4
<1>4. CASE ~ valid_ident(args[n + 1])
  BY <1>2, <1>4 DEF Left
<1>5. QED
  BY <1>3, <1>4

LEMMA UnsettingNext ==
  ASSUME IInv, NamesFound, NamesFound', Unique, Waiting, Calls, Unsetting, [CommandsNext]_<<vars, forked>>
  PROVE  Unsetting'
<1>1. CASE pc' # "unset"
  BY <1>1 DEF Unsetting
<1>2. CASE Aside
  <2>1. Values' = Values
    BY <1>2, SameValues DEF Aside
  <2>2. QED
    BY <1>2, <2>1 DEF Aside, call, Unsetting, Rest, Done
<1>3. ASSUME NEW c \in Commands, Run(c), pc' = "unset" PROVE Unsetting'
  <2>1. Done' = 0 /\ Rest' /\ command' = c /\ before' = Values /\ Values' = Values
    BY <1>3, RunRest
  <2>2. PICK old : old = Values
    OBVIOUS
  <2>3. old = [k \in DOMAIN old |-> old[k]]
    BY <2>2 DEF Values
  <2>4. Left(old, c.args, 0) = old
    BY <2>3 DEF Left, NamedBy
  <2>5. QED
    BY <2>1, <2>2, <2>4 DEF Unsetting
<1>4. CASE bi_unset /\ pc' = "unset"
  <2>1. /\ todo # <<>> /\ NextArg /\ pc = "unset"
        /\ IF valid_ident(Head(todo)) THEN env_unset(Head(todo)) ELSE UNCHANGED env
    BY <1>4 DEF bi_unset, Return
  <2>2. before' = before
    BY <2>1 DEF NextArg, call
  <2>3. PICK args : args = command.args
    OBVIOUS
  <2>4. PICK n : n = Done
    OBVIOUS
  <2>5. PICK a : a = Head(todo)
    OBVIOUS
  <2>6. /\ n \in Nat /\ Done' = n + 1 /\ a = args[n + 1] /\ a \in Str
        /\ Rest' /\ command' = command
    BY <2>1, <2>3, <2>4, <2>5, NextArgRest DEF IInv, Unsetting, Calls
  <2>7. Values' = IF valid_ident(a) THEN Without(Values, a) ELSE Values
    BY <2>1, <2>5, <2>6, UnsetValues, SameValues DEF IInv
  <2>8. Values = Left(before, args, n)
    BY <2>1, <2>3, <2>4 DEF Unsetting
  <2>9. PICK old : old = before
    OBVIOUS
  <2>10. Values' = Left(old, args, n + 1)
    BY <2>6, <2>7, <2>8, <2>9, LeftNext
  <2>11. QED
    BY <2>2, <2>3, <2>6, <2>9, <2>10 DEF Unsetting
<1>5. CASE env_init \/ bi_export \/ bi_cd \/ update_pwd \/ update_pwd_end \/ Crash
  BY <1>1, <1>5 DEF env_init, bi_export, bi_cd, update_pwd, update_pwd_end, Crash, NextArg, Return
<1>6. QED
  BY <1>1, <1>2, <1>3, <1>4, <1>5, StepCases

LEMMA UnsetReturns ==
  ASSUME IInv, Waiting, Calls, Unsetting, [CommandsNext]_<<vars, forked>>
  PROVE  Returns("unset") => Removed
<1> SUFFICES ASSUME Returns("unset")
             PROVE  Values' = [k \in {n \in DOMAIN before :
                                        ~ \E m \in DOMAIN command.args :
                                             /\ valid_ident(command.args[m])
                                             /\ Matches(make_kv(n, before[n]), command.args[m])} |-> before[k]]
  BY DEF Removed
<1>1. bi_unset /\ pc = "unset" /\ pc' # "unset"
  BY ReturnCases DEF Returns, bi_unset
<1>2. todo = <<>> /\ UNCHANGED env
  BY <1>1 DEF bi_unset, NextArg
<1>3. command \in Commands /\ Rest /\ Values = Left(before, command.args, Done)
  BY <1>1 DEF Calls, Unsetting
<1>4. DOMAIN command.args = 1 .. Done
  BY <1>2, <1>3, ReturnRest DEF IInv
<1>5. Values' = Values
  BY <1>2, SameValues
<1>6. QED
  BY <1>3, <1>4, <1>5 DEF Left, NamedBy

(* No name twice among the strings that are still to import, nor among them and
   those imported. *)
Distinct(s) == \A i, j \in 1 .. Len(s) : IsSet(s[i]) /\ IsSet(s[j]) /\ KeyOf(s[i]) = KeyOf(s[j]) => i = j

Importing ==
    pc = "init" =>
        /\ Distinct(todo)
        /\ \A j \in 0 .. Seen - 1 : \A i \in 1 .. Len(todo) :
              ~ (IsSet(arr[j]) /\ IsSet(todo[i]) /\ KeyOf(arr[j]) = KeyOf(todo[i]))

LEMMA ImportNext ==
  ASSUME IInv, NamesFound, Unique, Importing, pc = "init", todo # <<>>, AppendEntry(Head(todo)) \/ AppendEntry(Null),
         todo' = Tail(todo)
  PROVE  Unique' /\ Importing'
<1>1. PICK e : e = Head(todo)
  OBVIOUS
<1>2. PICK t : t = Len(todo)
  OBVIOUS
<1>3. todo \in Seq(Str)
  BY DEF IInv, ControlOK
<1>4. e \in Str /\ Len(todo') = t - 1 /\ \A i \in 1 .. t - 1 : todo'[i] = todo[i + 1]
  BY <1>1, <1>2, <1>3, HeadTailProperties
<1>5. t \in Nat \ {0} /\ e = todo[1]
  <2>1. t \in Nat \ {0}
    BY <1>2, <1>3, EmptySeq
  <2>2. QED
    BY <1>1, <1>3, <2>1
<1>0. PICK n : n = Seen
  OBVIOUS
<1>6. /\ n \in Nat /\ (\A j \in 0 .. n - 1 : arr'[j] = arr[j]) /\ e # Null
      /\ Seen' = n \/ (Seen' = n + 1 /\ arr'[n] = e)
  <2>1. Seen \in Nat /\ Seen <= len /\ len \in Nat /\ e # Null
    BY <1>4, SeenIs, EnvAssumption DEF IInv, Layout, SeenOK
  <2>2. CASE AppendEntry(e)
    BY <1>0, <2>1, <2>2, AppendSeen DEF IInv
  <2>3. CASE AppendEntry(Null)
    BY <1>0, <2>1, <2>3, AppendSeen DEF IInv
  <2>4. QED
    BY <1>1, <2>2, <2>3
<1>7. \A i, j \in 1 .. t : IsSet(todo[i]) /\ IsSet(todo[j]) /\ KeyOf(todo[i]) = KeyOf(todo[j]) => i = j
  BY <1>2 DEF Importing, Distinct
<1>8. \A j \in 0 .. n - 1 : \A i \in 1 .. t :
          ~ (IsSet(arr[j]) /\ IsSet(todo[i]) /\ KeyOf(arr[j]) = KeyOf(todo[i]))
  BY <1>0, <1>2 DEF Importing
<1>9. \A j \in 0 .. Seen' - 1 : j \in 0 .. n - 1 \/ (j = n /\ arr'[j] = e)
  BY <1>6
<1>10. ASSUME NEW m, Plain(m), NEW i \in Found(m)', NEW j \in Found(m)' PROVE i = j
  <2>1. Found(m)' \subseteq Found(m) \cup {n}
    BY <1>0, <1>6, <1>9 DEF Found
  <2>2. ASSUME NEW k \in Found(m), n \in Found(m)' PROVE FALSE
    <3>1. k \in 0 .. n - 1 /\ Matches(arr[k], m) /\ arr[k] \in Str /\ Matches(e, m)
      BY <1>0, <1>6, <1>9, <2>2 DEF Found, NamesFound
    <3>2. IsSet(arr[k]) /\ KeyOf(arr[k]) = m /\ IsSet(e) /\ KeyOf(e) = m
      BY <1>4, <1>10, <3>1, KeyMatches DEF IsSet
    <3>3. 1 \in 1 .. t
      BY <1>5
    <3>4. QED
      BY <1>5, <1>8, <3>1, <3>2, <3>3
  <2>3. QED
    BY <1>10, <2>1, <2>2 DEF Unique
<1>11. Unique'
  BY <1>10 DEF Unique
<1>12. ASSUME NEW i \in 1 .. t - 1 PROVE todo'[i] = todo[i + 1] /\ i + 1 \in 1 .. t /\ i + 1 # 1
  BY <1>4, <1>5
<1>13. Distinct(todo')
  <2>1. ASSUME NEW i \in 1 .. t - 1, NEW j \in 1 .. t - 1,
               IsSet(todo'[i]), IsSet(todo'[j]), KeyOf(todo'[i]) = KeyOf(todo'[j])
        PROVE  i = j
    <3>1. i + 1 = j + 1
      BY <1>7, <1>12, <2>1
    <3>2. QED
      BY <3>1
  <2>2. QED
    BY <1>4, <2>1 DEF Distinct
<1>14. ASSUME NEW j \in 0 .. Seen' - 1, NEW i \in 1 .. t - 1
       PROVE  ~ (IsSet(arr'[j]) /\ IsSet(todo'[i]) /\ KeyOf(arr'[j]) = KeyOf(todo'[i]))
  <2>1. CASE j \in 0 .. n - 1
    BY <1>6, <1>8, <1>12, <2>1
  <2>2. CASE j = n /\ arr'[j] = e
    <3>1. 1 \in 1 .. t
      BY <1>5
    <3>2. i + 1 \in 1 .. t /\ todo'[i] = todo[i + 1] /\ i + 1 # 1
      BY <1>12
    <3>3. arr'[j] = todo[1]
      BY <1>5, <1>6, <2>2
    <3>4. QED
      BY <1>7, <3>1, <3>2, <3>3
  <2>3. QED
    BY <1>9, <2>1, <2>2
<1>15. Importing'
  BY <1>4, <1>13, <1>14 DEF Importing, Distinct, IsSet
<1>16. QED
  BY <1>11, <1>15

LEMMA UniqueNext ==
  ASSUME IInv, NamesFound, Waiting, Unique, Importing, [CommandsNext]_<<vars, forked>>
  PROVE  Unique' /\ Importing'
<1>1. CASE UNCHANGED <<env, pc, todo>>
  BY <1>1 DEF env, Unique, Found, Importing, Seen
<1>2. CASE UNCHANGED env /\ pc' # "init"
  BY <1>2 DEF env, Unique, Found, Importing, Seen
<1>3. CASE env_init
  <2>1. CASE todo # <<>> /\ (AppendEntry(Head(todo)) \/ AppendEntry(Null)) /\ todo' = Tail(todo)
    BY <1>3, <2>1, ImportNext DEF env_init
  <2>2. QED
    BY <1>2, <1>3, <2>1 DEF env_init
<1>4. ASSUME NEW k, Plain(k), NEW v \in Str, env_set(k, v), pc' # "init" PROVE Unique' /\ Importing'
  BY <1>4, SetUnique DEF IInv, Importing
<1>5. CASE bi_export
  <2>1. CASE todo # <<>> /\ env_set(KeyOf(Head(todo)), ValueOf(Head(todo))) /\ pc' = pc
    <3>1. Head(todo) \in Str
      BY <2>1, HeadTailProperties DEF IInv, ControlOK
    <3>2. Plain(KeyOf(Head(todo))) /\ ValueOf(Head(todo)) \in Str
      BY <3>1, KeyPlain, KeyValueType
    <3>3. QED
      BY <1>4, <1>5, <2>1, <3>2 DEF bi_export
  <2>2. QED
    BY <1>2, <1>5, <2>1 DEF bi_export, NextArg, Return
<1>6. CASE bi_unset
  <2>1. ASSUME NEW k, env_unset(k), pc' # "init" PROVE Unique' /\ Importing'
    BY <2>1, UnsetUnique DEF IInv, Importing
  <2>2. QED
    BY <1>2, <1>6, <2>1 DEF bi_unset, NextArg, Return
<1>7. CASE update_pwd
  BY <1>2, <1>4, <1>7, PwdPlain, OldpwdType DEF update_pwd, Return, IInv
<1>8. CASE update_pwd_end
  BY <1>4, <1>8, PwdPlain, EnvAssumption DEF update_pwd_end, Return, IInv, ControlOK
<1>9. CASE bi_cd
  BY <1>2, <1>9 DEF bi_cd, Return
<1>10. ASSUME NEW c \in Commands, Run(c) PROVE Unique' /\ Importing'
  BY <1>2, <1>10, EnvAssumption DEF Run
<1>11. CASE Crash
  BY <1>2, <1>11 DEF Crash
<1>12. QED
  BY <1>1, <1>3, <1>5, <1>6, <1>7, <1>8, <1>9, <1>10, <1>11, StepCases DEF Aside

-----------------------------------------------------------------------------
(* The invariants of the calls. *)
LEMMA CallsInductive == CommandsSpec => [](Waiting /\ Calls /\ Exporting /\ ChangingDir)
<1>1. Init /\ Idle => Waiting /\ Calls /\ Exporting /\ ChangingDir
  BY DEF Init, Idle, Waiting, Calls, Exporting, ChangingDir
<1>2. IInv => NamesFound
  BY LayoutNames DEF IInv
<1>3. /\ IInv /\ NamesFound /\ NamesFound' /\ Waiting /\ Calls /\ Exporting /\ ChangingDir
      /\ [CommandsNext]_<<vars, forked>>
      => Waiting' /\ Calls' /\ Exporting' /\ ChangingDir'
  BY WaitingNext, CallsNext, ExportingNext, ChangingDirNext
<1>4. QED
  BY <1>1, <1>2, <1>3, CommandsInductive, PTL DEF CommandsSpec, CommandsInit

(* export (export_unset.c:33-59) does what it says, for any arguments and
   wherever memory runs out. *)
THEOREM ExportSets == CommandsSpec => ExportEffect
<1>1. IInv /\ Waiting /\ Calls /\ Exporting /\ [CommandsNext]_<<vars, forked>> => [Returns("export") => Exported]_vars
  BY ExportReturns
<1>2. QED
  BY <1>1, CallsInductive, CommandsInductive, PTL DEF CommandsSpec, ExportEffect

(* cd (cd.c) keeps PWD and OLDPWD in step with the working directory. *)
THEOREM CdKeepsPwd == CommandsSpec => CdEffect
<1>1. IInv => NamesFound
  BY LayoutNames DEF IInv
<1>2. IInv /\ NamesFound /\ NamesFound' /\ Waiting /\ Calls /\ ChangingDir /\ [CommandsNext]_<<vars, forked>>
      => [Returns("cd") => Changed]_vars
  BY CdReturns
<1>3. QED
  BY <1>1, <1>2, CallsInductive, CommandsInductive, PTL DEF CommandsSpec, CdEffect

(* That the environment at the start names nothing twice: what getenv's callers
   take for granted, and what unset, which removes one entry, needs. *)
NamedOnce == \A s \in Environs : Distinct(s)

LEMMA UniqueInductive == ASSUME NamedOnce PROVE CommandsSpec => [](Unique /\ Importing)
<1>1. Init /\ Idle => Unique /\ Importing
  BY BeforeZero DEF Init, NamedOnce, Unique, Found, Importing, Seen
<1>2. IInv => NamesFound
  BY LayoutNames DEF IInv
<1>3. /\ IInv /\ NamesFound /\ Waiting /\ Unique /\ Importing /\ [CommandsNext]_<<vars, forked>>
      => Unique' /\ Importing'
  BY UniqueNext
<1>4. QED
  BY <1>1, <1>2, <1>3, CommandsInductive, CallsInductive, PTL DEF CommandsSpec, CommandsInit

(* unset (export_unset.c:61-77) removes what its arguments name and nothing
   else, when the shell was started with an environment without duplicates. *)
THEOREM UnsetRemoves == ASSUME NamedOnce PROVE CommandsSpec => UnsetEffect
<1>1. IInv => NamesFound
  BY LayoutNames DEF IInv
<1>2. Init /\ Idle => Unsetting
  BY DEF Init, Unsetting
<1>3. IInv /\ NamesFound /\ NamesFound' /\ Unique /\ Waiting /\ Calls /\ Unsetting /\ [CommandsNext]_<<vars, forked>>
      => Unsetting'
  BY UnsettingNext
<1>4. IInv /\ Waiting /\ Calls /\ Unsetting /\ [CommandsNext]_<<vars, forked>> => [Returns("unset") => Removed]_vars
  BY UnsetReturns
<1>5. CommandsSpec => [](Unique /\ Importing)
  BY UniqueInductive
<1>6. QED
  BY <1>1, <1>2, <1>3, <1>4, <1>5, CommandsInductive, CallsInductive, PTL DEF CommandsSpec, CommandsInit, UnsetEffect

-----------------------------------------------------------------------------
LEMMA MaxOf ==
  ASSUME NEW S, NEW n \in S, S \subseteq Nat, \A m \in S : m <= n
  PROVE Max(S) = n
<1>1. \A y \in S : n >= y
  OBVIOUS
<1>2. \A x \in S : (\A y \in S : x >= y) => x = n
  OBVIOUS
<1>3. QED
  BY <1>1, <1>2 DEF Max

(* One turn of ft_split's loop, and of the scan for assignments, as folds unfold. *)
SplitStep(s, c, words, m) ==
    CASE s[m] = c        -> words
      [] Starts(s, c, m) -> Append(words, <<s[m]>>)
      [] OTHER           -> Front(words) \o <<Append(Last(words), s[m])>>

IsSplit(g, s, c, n) ==
    g = [S \in SUBSET (1 .. n) |->
            IF S = {} THEN <<>> ELSE SplitStep(s, c, g[S \ {Max(S)}], [m \in DOMAIN s |-> m][Max(S)])]

LEMMA IsSplitMore ==
  ASSUME NEW s \in Str, NEW c, NEW n \in Nat, n < Len(s), NEW g, IsSplit(g, s, c, n)
  PROVE  \E h : IsSplit(h, s, c, n + 1)
<1> DEFINE Top(S) == S \ {n + 1}
           h == [S \in SUBSET (1 .. n + 1) |-> IF n + 1 \in S THEN SplitStep(s, c, g[Top(S)], n + 1) ELSE g[S]]
<1>1. Len(s) \in Nat /\ DOMAIN s = 1 .. Len(s)
  BY LenProperties DEF Str
<1>2. [m \in DOMAIN s |-> m][n + 1] = n + 1
  BY <1>1
<1>3. ASSUME NEW S \in SUBSET (1 .. n + 1)
      PROVE  h[S] = IF S = {} THEN <<>> ELSE SplitStep(s, c, h[S \ {Max(S)}], [m \in DOMAIN s |-> m][Max(S)])
  <2>1. CASE n + 1 \in S
    <3>0. S \subseteq Nat /\ \A m \in S : m <= n + 1
      OBVIOUS
    <3>1. Max(S) = n + 1
      BY <2>1, <3>0, MaxOf
    <3>2. S \ {n + 1} \in SUBSET (1 .. n + 1) /\ n + 1 \notin S \ {n + 1}
      OBVIOUS
    <3>3. h[S \ {n + 1}] = g[S \ {n + 1}] /\ h[S] = SplitStep(s, c, g[S \ {n + 1}], n + 1)
      BY <2>1, <3>2
    <3> HIDE DEF h
    <3>4. QED
      BY <1>2, <2>1, <3>1, <3>3
  <2>2. CASE n + 1 \notin S /\ S # {}
    <3>1. S \in SUBSET (1 .. n)
      BY <2>2
    <3>2. PICK x : x = Max(S)
      OBVIOUS
    <3>3. S \ {x} \in SUBSET (1 .. n + 1) /\ n + 1 \notin S \ {x}
      BY <2>2
    <3>4. h[S] = g[S] /\ h[S \ {x}] = g[S \ {x}]
      BY <2>2, <3>3
    <3>5. g[S] = SplitStep(s, c, g[S \ {x}], [m \in DOMAIN s |-> m][x])
      BY <2>2, <3>1, <3>2 DEF IsSplit
    <3> HIDE DEF h
    <3>6. QED
      BY <2>2, <3>2, <3>4, <3>5
  <2>3. CASE S = {}
    <3>1. S \in SUBSET (1 .. n) /\ n + 1 \notin S
      BY <2>3
    <3>2. h[S] = g[S]
      BY <3>1
    <3> HIDE DEF h
    <3>3. QED
      BY <2>3, <3>1, <3>2 DEF IsSplit
  <2>4. QED
    BY <2>1, <2>2, <2>3
<1>4. h = [S \in SUBSET (1 .. n + 1) |-> h[S]]
  OBVIOUS
<1> HIDE DEF h
<1>5. IsSplit(h, s, c, n + 1)
  BY <1>3, <1>4 DEF IsSplit
<1>6. QED
  BY <1>5

LEMMA IsSplitExists ==
  ASSUME NEW s \in Str, NEW c, NEW n \in 0 .. Len(s)
  PROVE  \E g : IsSplit(g, s, c, n)
<1> DEFINE Bad == {m \in 0 .. Len(s) : ~ \E g : IsSplit(g, s, c, m)}
<1>1. Len(s) \in Nat
  BY LenProperties DEF Str
<1>2. SUFFICES ASSUME Bad # {} PROVE FALSE
  OBVIOUS
<1>3. Bad \in SUBSET Nat
  BY <1>1
<1>4. PICK m \in Bad : \A k \in Bad : m <= k
  <2> HIDE DEF Bad
  <2> QED BY <1>2, <1>3, Least
<1>5. CASE m = 0
  <2>1. IsSplit([S \in SUBSET (1 .. 0) |-> <<>>], s, c, 0)
    <3>1. \A S \in SUBSET (1 .. 0) : S = {}
      OBVIOUS
    <3>2. QED
      BY <3>1 DEF IsSplit
  <2>2. QED
    BY <1>5, <2>1
<1>6. CASE m # 0
  <2>1. m - 1 \in Nat /\ m - 1 < Len(s) /\ m - 1 \in 0 .. Len(s) /\ (m - 1) + 1 = m /\ ~ m <= m - 1
    BY <1>1, <1>4, <1>6
  <2>2. m - 1 \notin Bad
    <3> HIDE DEF Bad
    <3> QED BY <1>4, <2>1
  <2>3. PICK g : IsSplit(g, s, c, m - 1)
    BY <2>1, <2>2
  <2>4. \E h : IsSplit(h, s, c, m)
    BY <2>1, <2>3, IsSplitMore
  <2>5. QED
    BY <2>4
<1>7. QED
  BY <1>5, <1>6

(* ft_split looks at one character at a time. *)
LEMMA SplitUnfolds ==
  ASSUME NEW s \in Str, NEW c
  PROVE  \E words : /\ words[0] = <<>>
                    /\ \A m \in 1 .. Len(s) : words[m] = SplitStep(s, c, words[m - 1], m)
                    /\ ft_split(s, c) = words[Len(s)]
<1>1. Len(s) \in Nat /\ DOMAIN s = 1 .. Len(s)
  BY LenProperties DEF Str
<1>2. PICK g : g = CHOOSE f : IsSplit(f, s, c, Len(s))
  OBVIOUS
<1>3. ft_split(s, c) = g[1 .. Len(s)]
  BY <1>1, <1>2 DEF IsSplit, ft_split, FoldLeft, MapThenFoldSet, SplitStep
<1>4. IsSplit(g, s, c, Len(s))
  <2>1. \E f : IsSplit(f, s, c, Len(s))
    BY <1>1, IsSplitExists
  <2> QED BY <1>2, <2>1
<1> DEFINE words == [m \in 0 .. Len(s) |-> g[1 .. m]]
<1>5. words[0] = <<>>
  <2>1. 1 .. 0 = {} /\ {} \in SUBSET (1 .. Len(s)) /\ 0 \in 0 .. Len(s)
    BY <1>1
  <2>2. g[{}] = <<>>
    BY <1>4, <2>1 DEF IsSplit
  <2>3. words[0] = g[1 .. 0]
    BY <2>1
  <2> QED
    BY <2>1, <2>2, <2>3
<1>6. ASSUME NEW m \in 1 .. Len(s) PROVE words[m] = SplitStep(s, c, words[m - 1], m)
  <2>1. 1 .. m \in SUBSET (1 .. Len(s)) /\ m \in 1 .. m /\ (1 .. m) \ {m} = 1 .. m - 1 /\ 1 .. m \subseteq Nat /\ \A k \in 1 .. m : k <= m
    BY <1>1, <1>6
  <2>2. Max(1 .. m) = m
    BY <2>1, MaxOf
  <2>3. 1 .. m # {}
    BY <2>1
  <2>4. g[1 .. m] = SplitStep(s, c, g[1 .. m - 1], [k \in DOMAIN s |-> k][m])
    <3>1. g[1 .. m] = SplitStep(s, c, g[(1 .. m) \ {Max(1 .. m)}], [k \in DOMAIN s |-> k][Max(1 .. m)])
      BY <1>4, <2>1, <2>3 DEF IsSplit
    <3> QED BY <2>1, <2>2, <3>1
  <2>5. m \in DOMAIN s /\ m \in 0 .. Len(s) /\ m - 1 \in 0 .. Len(s)
    BY <1>1, <1>6
  <2>6. words[m] = g[1 .. m] /\ words[m - 1] = g[1 .. m - 1]
    BY <2>5
  <2>7. [k \in DOMAIN s |-> k][m] = m
    BY <2>5
  <2> HIDE DEF words
  <2>8. QED
    BY <2>4, <2>6, <2>7
<1>7. words[Len(s)] = g[1 .. Len(s)]
  BY <1>1
<1> HIDE DEF words
<1>8. QED
  BY <1>3, <1>5, <1>6, <1>7

(* What ft_split has made of the first n characters: the words are the runs
   from a[k] to b[k], in their order, and every character of a word is in one. *)
Cut(s, c, n, ws, a, b) ==
    /\ ws \in Seq(Str) /\ a \in [1 .. Len(ws) -> 1 .. n] /\ b \in [1 .. Len(ws) -> 1 .. n]
    /\ \A k \in 1 .. Len(ws) :
          /\ a[k] <= b[k] /\ ws[k] = SubSeq(s, a[k], b[k])
          /\ \A m \in a[k] .. b[k] : s[m] # c
          /\ a[k] = 1 \/ s[a[k] - 1] = c
          /\ b[k] = n \/ s[b[k] + 1] = c
    /\ \A j, k \in 1 .. Len(ws) : j < k => b[j] < a[k]
    /\ \A m \in 1 .. n : s[m] # c => \E k \in 1 .. Len(ws) : m \in a[k] .. b[k]

LEMMA CutMore ==
  ASSUME NEW s \in Str, NEW c, NEW n \in Nat, n < Len(s), NEW ws, NEW a, NEW b, Cut(s, c, n, ws, a, b)
  PROVE  \E a1, b1 : Cut(s, c, n + 1, SplitStep(s, c, ws, n + 1), a1, b1)
<1>1. Len(s) \in Nat /\ DOMAIN s = 1 .. Len(s) /\ s[n + 1] \in Char
  BY LenProperties, ElementOfSeq DEF Str
<1>2. PICK L : L = Len(ws)
  OBVIOUS
<1>3. /\ L \in Nat /\ a \in [1 .. L -> 1 .. n] /\ b \in [1 .. L -> 1 .. n]
      /\ \A k \in 1 .. L : /\ a[k] <= b[k] /\ ws[k] = SubSeq(s, a[k], b[k])
                           /\ \A m \in a[k] .. b[k] : s[m] # c
                           /\ a[k] = 1 \/ s[a[k] - 1] = c
                           /\ b[k] = n \/ s[b[k] + 1] = c
      /\ \A j, k \in 1 .. L : j < k => b[j] < a[k]
      /\ \A m \in 1 .. n : s[m] # c => \E k \in 1 .. L : m \in a[k] .. b[k]
  BY <1>2, LenProperties DEF Cut
<1>4. ws \in Seq(Str)
  BY DEF Cut
<1>5. CASE s[n + 1] = c
  <2>1. SplitStep(s, c, ws, n + 1) = ws
    BY <1>5 DEF SplitStep, Starts
  <2>2. Cut(s, c, n + 1, ws, a, b)
    <3>1. a \in [1 .. L -> 1 .. n + 1] /\ b \in [1 .. L -> 1 .. n + 1]
      BY <1>3
    <3>2. \A k \in 1 .. L : b[k] = n + 1 \/ s[b[k] + 1] = c
      BY <1>3, <1>5
    <3>3. \A m \in 1 .. n + 1 : s[m] # c => \E k \in 1 .. L : m \in a[k] .. b[k]
      BY <1>3, <1>5
    <3> QED
      BY <1>2, <1>3, <1>4, <3>1, <3>2, <3>3 DEF Cut
  <2>3. QED
    BY <2>1, <2>2
<1>6. CASE Starts(s, c, n + 1)
  <2>1. PICK w : w = <<s[n + 1]>>
    OBVIOUS
  <2>2. PICK v : v = Append(ws, w)
    OBVIOUS
  <2>3. SplitStep(s, c, ws, n + 1) = v
    BY <1>6, <2>1, <2>2 DEF SplitStep, Starts
  <2>4. w \in Str /\ w = SubSeq(s, n + 1, n + 1)
    <3>1. w \in Seq(Char) /\ Len(w) = 1 /\ w[1] = s[n + 1]
      BY <1>1, <2>1
    <3>2. PICK u : u = SubSeq(s, n + 1, n + 1)
      OBVIOUS
    <3>3. u \in Seq(Char) /\ Len(u) = 1 /\ u[1] = s[n + 1]
      <4>1. \A i \in n + 1 .. n + 1 : s[i] \in Char
        BY <1>1
      <4>2. /\ u \in Seq(Char) /\ Len(u) = IF n + 1 <= n + 1 THEN (n + 1) - (n + 1) + 1 ELSE 0
            /\ \A i \in 1 .. (n + 1) - (n + 1) + 1 : u[i] = s[(n + 1) + i - 1]
        BY <3>2, <4>1, SubSeqProperties
      <4>3. (n + 1) - (n + 1) + 1 = 1 /\ (n + 1) + 1 - 1 = n + 1 /\ 1 \in 1 .. 1
        OBVIOUS
      <4> QED
        BY <4>2, <4>3
    <3>4. \A i \in 1 .. Len(w) : w[i] = u[i]
      BY <3>1, <3>3
    <3>5. w = u
      BY <3>1, <3>3, <3>4, SeqEqual
    <3> QED
      BY <3>1, <3>2, <3>5 DEF Str
  <2>5. /\ v \in Seq(Str) /\ Len(v) = L + 1 /\ v[L + 1] = w
        /\ \A k \in 1 .. L : v[k] = ws[k]
    BY <1>2, <1>4, <2>2, <2>4, AppendProperties
  <2> DEFINE a1 == [k \in 1 .. L + 1 |-> IF k = L + 1 THEN n + 1 ELSE a[k]]
             b1 == [k \in 1 .. L + 1 |-> IF k = L + 1 THEN n + 1 ELSE b[k]]
  <2>6. a1 \in [1 .. L + 1 -> 1 .. n + 1] /\ b1 \in [1 .. L + 1 -> 1 .. n + 1]
    BY <1>3
  <2>7. a1[L + 1] = n + 1 /\ b1[L + 1] = n + 1 /\ \A k \in 1 .. L : a1[k] = a[k] /\ b1[k] = b[k]
    BY <1>3
  <2> HIDE DEF a1, b1
  <2>8. \A k \in 1 .. L : s[b[k] + 1] = c
    <3>1. ASSUME NEW k \in 1 .. L, b[k] = n PROVE FALSE
      <4>1. n \in a[k] .. b[k] /\ n # 0
        BY <1>3, <3>1
      <4>2. s[n] # c
        BY <1>3, <4>1
      <4>3. s[(n + 1) - 1] = c /\ (n + 1) - 1 = n
        BY <1>6, <4>1 DEF Starts
      <4> QED
        BY <4>2, <4>3
    <3> QED
      BY <1>3, <3>1
  <2>9. \A k \in 1 .. L + 1 : /\ a1[k] <= b1[k] /\ v[k] = SubSeq(s, a1[k], b1[k])
                              /\ \A m \in a1[k] .. b1[k] : s[m] # c
                              /\ a1[k] = 1 \/ s[a1[k] - 1] = c
                              /\ b1[k] = n + 1 \/ s[b1[k] + 1] = c
    <3>1. ASSUME NEW k \in 1 .. L
          PROVE  /\ a1[k] <= b1[k] /\ v[k] = SubSeq(s, a1[k], b1[k])
                 /\ \A m \in a1[k] .. b1[k] : s[m] # c
                 /\ a1[k] = 1 \/ s[a1[k] - 1] = c
                 /\ b1[k] = n + 1 \/ s[b1[k] + 1] = c
      BY <1>3, <2>5, <2>7, <2>8
    <3>2. /\ a1[L + 1] <= b1[L + 1] /\ v[L + 1] = SubSeq(s, a1[L + 1], b1[L + 1])
          /\ (\A m \in a1[L + 1] .. b1[L + 1] : s[m] # c)
          /\ (a1[L + 1] = 1 \/ s[a1[L + 1] - 1] = c)
          /\ b1[L + 1] = n + 1
      <4>1. n + 1 <= n + 1 /\ \A m \in n + 1 .. n + 1 : m = n + 1
        OBVIOUS
      <4> QED
        BY <1>6, <2>4, <2>5, <2>7, <4>1 DEF Starts
    <3>3. \A k \in 1 .. L + 1 : k \in 1 .. L \/ k = L + 1
      BY <1>3
    <3> QED
      BY <3>1, <3>2, <3>3
  <2>10. \A j, k \in 1 .. L + 1 : j < k => b1[j] < a1[k]
    <3>1. ASSUME NEW j \in 1 .. L + 1, NEW k \in 1 .. L + 1, j < k PROVE b1[j] < a1[k]
      <4>1. j \in 1 .. L /\ b1[j] = b[j] /\ b[j] \in 1 .. n
        BY <1>3, <2>7, <3>1
      <4>2. CASE k = L + 1
        BY <2>7, <4>1, <4>2
      <4>3. CASE k \in 1 .. L
        BY <1>3, <2>7, <3>1, <4>1, <4>3
      <4>4. k \in 1 .. L \/ k = L + 1
        BY <1>3
      <4> QED
        BY <4>2, <4>3, <4>4
    <3> QED
      BY <3>1
  <2>11. \A m \in 1 .. n + 1 : s[m] # c => \E k \in 1 .. L + 1 : m \in a1[k] .. b1[k]
    <3>1. n + 1 \in a1[L + 1] .. b1[L + 1] /\ L + 1 \in 1 .. L + 1
      BY <1>3, <2>7
    <3>2. ASSUME NEW m \in 1 .. n, s[m] # c PROVE \E k \in 1 .. L + 1 : m \in a1[k] .. b1[k]
      <4>1. PICK k \in 1 .. L : m \in a[k] .. b[k]
        BY <1>3, <3>2
      <4>2. k \in 1 .. L + 1 /\ m \in a1[k] .. b1[k]
        BY <1>3, <2>7, <4>1
      <4> QED BY <4>2
    <3> QED
      BY <3>1, <3>2
  <2>12. Cut(s, c, n + 1, v, a1, b1)
    <3>1. PICK M : M = L + 1
      OBVIOUS
    <3>4. PICK N : N = n + 1
      OBVIOUS
    <3>2. Len(v) = M
      BY <2>5, <3>1
    <3>3. a1 \in [1 .. M -> 1 .. n + 1] /\ b1 \in [1 .. M -> 1 .. n + 1]
      BY <2>6, <3>1
    <3> QED
      BY <2>5, <2>9, <2>10, <2>11, <3>1, <3>2, <3>3, <3>4 DEF Cut
  <2> QED
    BY <2>3, <2>12
<1>7. CASE s[n + 1] # c /\ ~ Starts(s, c, n + 1)
  <2>1. n \in 1 .. n /\ s[n] # c
    <3>1. n + 1 # 1 /\ s[(n + 1) - 1] # c
      BY <1>7 DEF Starts
    <3>2. (n + 1) - 1 = n
      OBVIOUS
    <3> QED
      BY <3>1, <3>2
  <2>2. PICK z \in 1 .. L : n \in a[z] .. b[z]
    BY <1>3, <2>1
  <2>3. b[z] = n /\ z = L /\ L >= 1
    <3>1. b[z] \in 1 .. n /\ a[z] \in 1 .. n
      BY <1>3
    <3>2. b[z] = n
      BY <2>2, <3>1
    <3>3. ~ z < L
      <4>1. ASSUME z < L PROVE FALSE
        <5>1. L \in 1 .. L /\ a[L] \in 1 .. n
          BY <1>3, <2>2
        <5>2. b[z] < a[L]
          BY <1>3, <4>1, <5>1
        <5> QED
          BY <3>2, <5>1, <5>2
      <4> QED BY <4>1
    <3> QED
      BY <1>3, <2>2, <3>2, <3>3
  <2>4. PICK w : w = Append(ws[L], s[n + 1])
    OBVIOUS
  <2>5. PICK f : f = SubSeq(ws, 1, L - 1)
    OBVIOUS
  <2>6. PICK v : v = f \o <<w>>
    OBVIOUS
  <2>7. SplitStep(s, c, ws, n + 1) = v
    BY <1>2, <1>7, <2>4, <2>5, <2>6 DEF SplitStep, Front, Last
  <2>8. ws[L] \in Str /\ ws[L] = SubSeq(s, a[L], n)
    <3>1. L \in 1 .. L
      BY <1>3, <2>3
    <3>2. ws[L] \in Str
      BY <1>2, <1>4, <3>1, ElementOfSeq
    <3> QED
      BY <1>3, <2>3, <3>1, <3>2
  <2>9. w \in Str /\ w = SubSeq(s, a[L], n + 1)
    <3>1. w \in Str
      BY <1>1, <2>4, <2>8, AppendProperties DEF Str
    <3>2. a[L] \in 1 .. Len(s) /\ n + 1 \in a[L] .. Len(s) /\ (n + 1) - 1 = n
      BY <1>1, <1>3, <2>2, <2>3
    <3>3. SubSeq(s, a[L], n + 1) = SubSeq(s, a[L], (n + 1) - 1) \o <<s[n + 1]>>
      BY <3>2, SubSeqRecursiveSecond DEF Str
    <3>4. w = ws[L] \o <<s[n + 1]>>
      BY <1>1, <2>4, <2>8, AppendIsConcat DEF Str
    <3> QED
      BY <2>8, <3>1, <3>2, <3>3, <3>4
  <2>10. f \in Seq(Str) /\ Len(f) = L - 1 /\ \A k \in 1 .. L - 1 : f[k] = ws[k]
    <3>1. \A k \in 1 .. L - 1 : ws[k] \in Str
      <4>1. \A k \in 1 .. L - 1 : k \in 1 .. Len(ws)
        BY <1>2, <1>3
      <4> QED
        BY <1>4, <4>1, ElementOfSeq
    <3>2. /\ f \in Seq(Str) /\ Len(f) = IF 1 <= L - 1 THEN (L - 1) - 1 + 1 ELSE 0
          /\ \A k \in 1 .. (L - 1) - 1 + 1 : f[k] = ws[1 + k - 1]
      BY <1>3, <2>5, <3>1, SubSeqProperties
    <3> QED
      BY <1>3, <2>3, <3>2
  <2>11. v \in Seq(Str) /\ Len(v) = L /\ v[L] = w /\ \A k \in 1 .. L - 1 : v[k] = ws[k]
    <3>1. PICK q : q = <<w>>
      OBVIOUS
    <3>2. q \in Seq(Str) /\ Len(q) = 1 /\ q[1] = w
      <4>1. w \in Str
        BY <2>9
      <4> QED
        BY <3>1, <4>1
    <3>3. /\ v \in Seq(Str) /\ Len(v) = Len(f) + Len(q)
          /\ \A k \in 1 .. Len(f) + Len(q) : v[k] = IF k <= Len(f) THEN f[k] ELSE q[k - Len(f)]
      BY <2>6, <2>10, <3>1, <3>2, ConcatProperties
    <3>4. (L - 1) + 1 = L /\ L - (L - 1) = 1 /\ ~ L <= L - 1 /\ L \in 1 .. L /\ \A k \in 1 .. L - 1 : k \in 1 .. L /\ k <= L - 1
      BY <1>3, <2>3
    <3>5. Len(v) = L
      BY <2>10, <3>2, <3>3, <3>4
    <3>6. v[L] = w
      BY <2>10, <3>2, <3>3, <3>4
    <3>7. \A k \in 1 .. L - 1 : v[k] = ws[k]
      BY <2>10, <3>2, <3>3, <3>4
    <3> QED
      BY <3>3, <3>5, <3>6, <3>7
  <2> DEFINE b1 == [b EXCEPT ![L] = n + 1]
  <2>12. a \in [1 .. L -> 1 .. n + 1] /\ b1 \in [1 .. L -> 1 .. n + 1]
    BY <1>3
  <2>13. L \in 1 .. L /\ b1[L] = n + 1 /\ \A k \in 1 .. L : k # L => b1[k] = b[k]
    BY <1>3, <2>3
  <2> HIDE DEF b1
  <2>14. \A k \in 1 .. L : /\ a[k] <= b1[k] /\ v[k] = SubSeq(s, a[k], b1[k])
                           /\ \A m \in a[k] .. b1[k] : s[m] # c
                           /\ a[k] = 1 \/ s[a[k] - 1] = c
                           /\ b1[k] = n + 1 \/ s[b1[k] + 1] = c
    <3>1. ASSUME NEW k \in 1 .. L, k # L
          PROVE /\ a[k] <= b1[k] /\ v[k] = SubSeq(s, a[k], b1[k])
                /\ \A m \in a[k] .. b1[k] : s[m] # c
                /\ a[k] = 1 \/ s[a[k] - 1] = c
                /\ b1[k] = n + 1 \/ s[b1[k] + 1] = c
      <4>1. k \in 1 .. L - 1 /\ b1[k] = b[k] /\ v[k] = ws[k]
        BY <1>3, <2>11, <2>13, <3>1
      <4>2. b[k] # n
        <5>1. b[k] < a[L] /\ a[L] \in 1 .. n /\ b[k] \in 1 .. n
          BY <1>3, <2>13, <4>1
        <5> QED BY <5>1
      <4> QED
        BY <1>3, <4>1, <4>2
    <3>2. a[L] <= n + 1 /\ (a[L] = 1 \/ s[a[L] - 1] = c)
      BY <1>3, <2>13
    <3>3. ASSUME NEW m \in a[L] .. n + 1 PROVE s[m] # c
      <4>1. m = n + 1 \/ m \in a[L] .. b[L]
        BY <1>3, <2>3, <2>13, <3>3
      <4> QED
        BY <1>3, <1>7, <2>13, <4>1
    <3> QED
      BY <2>9, <2>11, <2>13, <3>1, <3>2, <3>3
  <2>15. \A j, k \in 1 .. L : j < k => b1[j] < a[k]
    <3>1. ASSUME NEW j \in 1 .. L, NEW k \in 1 .. L, j < k PROVE b1[j] < a[k]
      <4>1. j # L
        BY <1>3, <3>1
      <4> QED
        BY <1>3, <2>13, <3>1, <4>1
    <3> QED
      BY <3>1
  <2>16. \A m \in 1 .. n + 1 : s[m] # c => \E k \in 1 .. L : m \in a[k] .. b1[k]
    <3>1. n + 1 \in a[L] .. b1[L]
      BY <1>3, <2>13
    <3>2. ASSUME NEW m \in 1 .. n, s[m] # c PROVE \E k \in 1 .. L : m \in a[k] .. b1[k]
      <4>1. PICK k \in 1 .. L : m \in a[k] .. b[k]
        BY <1>3, <3>2
      <4>2. m \in a[k] .. b1[k]
        <5>1. b[k] <= b1[k] /\ b1[k] \in Int /\ a[k] \in Int /\ b[k] \in Int
          <6>1. a[k] \in 1 .. n /\ b[k] \in 1 .. n
            BY <1>3
          <6>2. CASE k = L
            BY <2>13, <6>1, <6>2
          <6>3. CASE k # L
            BY <2>13, <6>1, <6>3
          <6> QED BY <6>2, <6>3
        <5> QED BY <4>1, <5>1
      <4> QED BY <4>2
    <3> QED
      BY <2>13, <3>1, <3>2
  <2>17. Cut(s, c, n + 1, v, a, b1)
    BY <2>11, <2>12, <2>14, <2>15, <2>16 DEF Cut
  <2> QED
    BY <2>7, <2>17
<1>8. QED
  BY <1>5, <1>6, <1>7

LEMMA SplitIs ==
  ASSUME NEW s \in Str, NEW c
  PROVE  \E a, b : Cut(s, c, Len(s), ft_split(s, c), a, b)
<1>1. Len(s) \in Nat
  BY LenProperties DEF Str
<1>2. PICK words : /\ words[0] = <<>>
                   /\ \A m \in 1 .. Len(s) : words[m] = SplitStep(s, c, words[m - 1], m)
                   /\ ft_split(s, c) = words[Len(s)]
  BY SplitUnfolds
<1> DEFINE Bad == {m \in 0 .. Len(s) : ~ \E a, b : Cut(s, c, m, words[m], a, b)}
<1>3. SUFFICES ASSUME Bad # {} PROVE FALSE
  BY <1>1, <1>2
<1>4. Bad \in SUBSET Nat
  BY <1>1
<1>5. PICK m \in Bad : \A k \in Bad : m <= k
  <2> HIDE DEF Bad
  <2> QED BY <1>3, <1>4, Least
<1>6. CASE m = 0
  <2>1. \A a : a \in [1 .. 0 -> 1 .. 0] => Cut(s, c, 0, <<>>, a, a)
    BY EmptySeq DEF Cut
  <2>2. [k \in 1 .. 0 |-> 1] \in [1 .. 0 -> 1 .. 0]
    OBVIOUS
  <2>3. QED
    BY <1>2, <1>6, <2>1, <2>2
<1>7. CASE m # 0
  <2>1. m - 1 \in Nat /\ m - 1 < Len(s) /\ m - 1 \in 0 .. Len(s) /\ (m - 1) + 1 = m /\ ~ m <= m - 1 /\ m \in 1 .. Len(s)
    BY <1>1, <1>5, <1>7
  <2>2. m - 1 \notin Bad
    <3> HIDE DEF Bad
    <3> QED BY <1>5, <2>1
  <2>3. PICK a, b : Cut(s, c, m - 1, words[m - 1], a, b)
    BY <2>1, <2>2
  <2>4. \E a1, b1 : Cut(s, c, m, SplitStep(s, c, words[m - 1], m), a1, b1)
    BY <2>1, <2>3, CutMore
  <2>5. QED
    BY <1>2, <2>1, <2>4
<1>8. QED
  BY <1>6, <1>7

-----------------------------------------------------------------------------
(***************************************************************************)
(* The forked child.                                                       *)
(***************************************************************************)
ChildOK ==
    /\ stage \in {"idle", "access", "execve", "over"}
    /\ child \in Forked \cup {NoCommand}
    /\ parts \in Seq(Str) /\ path \in Str \cup {Null}
    /\ DOMAIN given \subseteq Nat /\ \A m \in DOMAIN given : given[m] \in Str
    /\ status \in {0, 1, 126, 127, 139, Runs}

Stages ==
    /\ stage = "idle" => Idle
    /\ stage # "idle" => child \in Forked
    /\ stage \in {"idle", "access", "execve"} => status = 0 /\ given = <<>>
    /\ stage \in {"access", "execve"} => child.name = "program" /\ child.args # <<>>
    /\ stage = "access" => path = Null
    /\ stage = "execve" => path # Null

(* What the child was given is what the shell has. *)
Handed ==
    /\ status = Runs => stage = "over" /\ child.name = "program" /\ given = Environ
    /\ stage = "over" /\ child.name = "env" /\ status = 0 => given = Printed(Seen)

LEMMA GetType == ASSUME Layout, NEW k, Len(k) \in Nat PROVE env_get(k) \in Str \cup {Null}
<1>1. CASE find_key(k) = -1
  BY <1>1 DEF env_get
<1>2. CASE find_key(k) # -1
  <2>1. PICK e : e = arr[find_key(k)]
    OBVIOUS
  <2>2. e \in Str
    <3>1. SeenOK
      BY SeenIs
    <3>2. find_key(k) \in 0 .. Seen - 1
      BY <1>2, <3>1, FoundSeen DEF SeenOK
    <3>3. QED
      BY <2>1, <3>1, <3>2 DEF SeenOK
  <2>3. Len(e) \in Nat /\ \A m \in 1 .. Len(e) : e[m] \in Char
    BY <2>2, LenProperties, ElementOfSeq DEF Str
  <2>4. From(e, Len(k) + 2) \in Str
    <3>1. Len(k) + 2 \in Int /\ \A m \in Len(k) + 2 .. Len(e) : e[m] \in Char
      BY <2>3
    <3>2. QED
      BY <2>3, <3>1, SubSeqProperties DEF From, Str
  <2>5. QED
    BY <1>2, <2>1, <2>4 DEF env_get
<1>3. QED
  BY <1>1, <1>2

LEMMA PathType == Layout => env_get(PATH) \in Str \cup {Null}
<1>1. Len(PATH) \in Nat
  BY DEF PATH
<1>2. QED
  BY <1>1, GetType

LEMMA SplitType == ASSUME NEW s \in Str, NEW c PROVE ft_split(s, c) \in Seq(Str)
  BY SplitIs DEF Cut

LEMMA JoinType == ASSUME NEW dir \in Str, NEW cmd \in Str PROVE join_path(dir, cmd) \in Str
<1>1. <<"/">> \in Str
  BY EnvAssumption DEF Str
<1>2. dir \o <<"/">> \in Str
  BY <1>1, ConcatProperties DEF Str
<1>3. QED
  BY <1>2, ConcatProperties DEF join_path, Str

(* The strings in use. *)
LEMMA GivenTypes ==
  ASSUME IInv
  PROVE  /\ DOMAIN Environ \subseteq Nat /\ \A m \in DOMAIN Environ : Environ[m] \in Str
         /\ DOMAIN Printed(Seen) \subseteq Nat /\ \A m \in DOMAIN Printed(Seen) : Printed(Seen)[m] \in Str
<1>1. Seen \in Nat /\ \A j \in 0 .. Seen - 1 : arr[j] \in Str
  BY SeenIs DEF IInv, SeenOK
<1>2. \A m \in 1 .. Seen : arr[m - 1] \in Str /\ m \in Nat
  BY <1>1
<1>3. Environ = [m \in 1 .. Seen |-> arr[m - 1]]
  BY EnvironIs
<1>4. QED
  BY <1>2, <1>3 DEF Printed

LEMMA ArgType ==
  ASSUME NEW c \in Forked
  PROVE  c.args \in Seq(Str) /\ (c.args # <<>> => c.args[1] \in Str /\ Head(c.args) = c.args[1])
<1>1. c.args \in Seq(Str)
  BY CommandsAssumption
<1>2. ASSUME c.args # <<>> PROVE c.args[1] \in Str
  <2>1. Len(c.args) \in Nat \ {0}
    BY <1>1, <1>2, EmptySeq
  <2>2. QED
    BY <1>1, <2>1, ElementOfSeq
<1>3. QED
  BY <1>1, <1>2

LEMMA EmptyIsStr == <<>> \in Seq(Str) /\ DOMAIN <<>> = {}
  BY EmptySeq

LEMMA StartOK ==
  ASSUME IInv, ChildOK, Stages, NEW c \in Forked, child_exec(c)
  PROVE  ChildOK' /\ Stages'
<1>1. stage = "idle" /\ Idle /\ child' = c
  BY DEF child_exec, Stages
<1>2. c.args \in Seq(Str) /\ (c.args # <<>> => c.args[1] \in Str)
  BY ArgType
<1>3. status = 0 /\ given = <<>> /\ path = Null /\ parts = <<>>
  BY <1>1 DEF Idle
<1>4. CASE NoProgram(c)
  BY <1>1, <1>3, <1>4 DEF NoProgram, Ends, ChildOK, Stages
<1>5. CASE bi_pwd(c)
  BY <1>1, <1>3, <1>5 DEF bi_pwd, Ends, ChildOK, Stages
<1>6. CASE bi_env(c)
  <2>1. given' = given \/ given' = Printed(Seen)
    BY <1>6 DEF bi_env
  <2>2. DOMAIN given' \subseteq Nat /\ \A m \in DOMAIN given' : given'[m] \in Str
    BY <2>1, GivenTypes DEF ChildOK
  <2>3. stage' = "over" /\ status' \in {0, 1, 139} /\ UNCHANGED <<parts, path>>
    BY <1>6 DEF bi_env, Ends
  <2>4. QED
    BY <1>1, <2>2, <2>3 DEF ChildOK, Stages
<1>7. CASE find_exec_path(c)
  <2>1. c.name = "program" /\ c.args # <<>> /\ UNCHANGED given
    BY <1>7 DEF find_exec_path
  <2>2. CASE path' = c.args[1] /\ stage' = "execve" /\ UNCHANGED <<parts, status>>
    <3>1. c.args[1] \in Str /\ c.args[1] # Null
      BY <1>2, <2>1, EnvAssumption
    <3>2. QED
      BY <1>1, <1>3, <2>1, <2>2, <3>1 DEF ChildOK, Stages
  <2>3. CASE env_get(PATH) # Null /\ parts' = ft_split(env_get(PATH), ":") /\ stage' = "access" /\ UNCHANGED <<path, status>>
    <3>1. parts' \in Seq(Str)
      BY <2>3, PathType, SplitType DEF IInv
    <3>2. QED
      BY <1>1, <1>3, <2>1, <2>3, <3>1 DEF ChildOK, Stages
  <2>4. CASE (Ends(127) \/ Ends(139)) /\ UNCHANGED <<parts, path>>
    BY <1>1, <1>3, <2>1, <2>4 DEF Ends, ChildOK, Stages
  <2>5. QED
    BY <1>7, <2>2, <2>3, <2>4 DEF find_exec_path
<1>8. QED
  BY <1>4, <1>5, <1>6, <1>7 DEF child_exec

LEMMA SearchOK ==
  ASSUME ChildOK, Stages, search
  PROVE  ChildOK' /\ Stages'
<1>1. stage = "access" /\ child \in Forked /\ child.name = "program" /\ child.args # <<>> /\ status = 0 /\ given = <<>> /\ path = Null
  BY DEF search, Stages
<1>2. UNCHANGED <<child, given>>
  BY DEF search
<1>3. child.args[1] \in Str
  BY <1>1, ArgType
<1>4. CASE Ends(127) /\ UNCHANGED <<parts, path>>
  BY <1>1, <1>2, <1>4 DEF Ends, ChildOK, Stages
<1>5. CASE parts # <<>> /\ path' = join_path(Head(parts), child.args[1]) /\ stage' = "execve" /\ UNCHANGED <<parts, status>>
  <2>1. Head(parts) \in Str
    BY <1>5, HeadTailProperties DEF ChildOK
  <2>2. path' \in Str /\ path' # Null
    BY <1>3, <1>5, <2>1, JoinType, EnvAssumption
  <2>3. QED
    BY <1>1, <1>2, <1>5, <2>2 DEF ChildOK, Stages
<1>6. CASE parts # <<>> /\ parts' = Tail(parts) /\ UNCHANGED <<stage, path, status>>
  <2>1. parts' \in Seq(Str)
    BY <1>6, HeadTailProperties DEF ChildOK
  <2>2. QED
    BY <1>1, <1>2, <1>6, <2>1 DEF ChildOK, Stages
<1>7. QED
  BY <1>4, <1>5, <1>6 DEF search

LEMMA ExecveOK ==
  ASSUME IInv, ChildOK, Stages, execve
  PROVE  ChildOK' /\ Stages'
<1>1. stage = "execve" /\ child \in Forked /\ stage' = "over" /\ status' \in {Runs, 127, 126} /\ UNCHANGED <<child, parts, path>>
  BY DEF execve, Ends, Stages
<1>2. given' = Environ \/ given' = <<>>
  BY DEF execve
<1>3. DOMAIN given' \subseteq Nat /\ \A m \in DOMAIN given' : given'[m] \in Str
  BY <1>2, GivenTypes, EmptyIsStr
<1>4. QED
  BY <1>1, <1>3 DEF ChildOK, Stages

LEMMA ReapOK ==
  ASSUME ChildOK, Stages, Reap
  PROVE  ChildOK' /\ Stages'
  BY EmptyIsStr DEF Reap, ChildOK, Stages, Idle

LEMMA ChildNext ==
  ASSUME IInv, ChildOK, Stages, [CommandsNext]_<<vars, forked>>
  PROVE  ChildOK' /\ Stages'
<1>1. CASE UNCHANGED forked
  BY <1>1 DEF forked, ChildOK, Stages, Idle
<1>2. QED
  BY <1>1, StartOK, SearchOK, ExecveOK, ReapOK DEF CommandsNext

LEMMA HandedNext ==
  ASSUME IInv, ChildOK, Stages, Handed, [CommandsNext]_<<vars, forked>>
  PROVE  Handed'
<1>1. CASE UNCHANGED forked /\ UNCHANGED env
  BY <1>1 DEF forked, env, Handed, Environ, Printed, Seen, Before
<1>2. CASE stage = "idle" /\ UNCHANGED forked
  BY <1>2 DEF forked, Stages, Handed, Runs
<1>3. ASSUME NEW c \in Forked, child_exec(c) PROVE Handed'
  <2>1. stage = "idle" /\ status = 0 /\ child' = c /\ UNCHANGED env
    BY <1>3 DEF child_exec, Quietly, Stages
  <2>2. status' # Runs
    BY <1>3, <2>1 DEF child_exec, NoProgram, find_exec_path, bi_env, bi_pwd, Ends, Runs
  <2>3. stage' = "over" /\ c.name = "env" /\ status' = 0 => given' = Printed(Seen)
    BY <1>3, <2>1 DEF child_exec, NoProgram, find_exec_path, bi_env, bi_pwd, Ends
  <2>4. Printed(Seen)' = Printed(Seen)
    BY <2>1 DEF env, Printed, Seen, Before
  <2>5. QED
    BY <2>1, <2>2, <2>3, <2>4 DEF Handed
<1>4. CASE search
  <2>1. status' # Runs /\ child'.name = "program"
    BY <1>4 DEF search, Ends, Stages, Runs
  <2>2. QED
    BY <2>1 DEF Handed
<1>5. CASE execve
  <2>1. child'.name = "program" /\ stage' = "over" /\ UNCHANGED env
    BY <1>5 DEF execve, Ends, Stages, Quietly
  <2>2. status' = Runs => given' = Environ
    BY <1>5 DEF execve, Ends, Runs
  <2>3. Environ' = Environ
    BY <2>1 DEF env, Environ
  <2>4. QED
    BY <2>1, <2>2, <2>3 DEF Handed
<1>6. CASE Reap
  BY <1>6 DEF Reap, Handed, Runs
<1>7. ASSUME NEW d \in Dirs, Rmdir(d), UNCHANGED forked PROVE Handed'
  BY <1>1, <1>7 DEF Rmdir
<1>8. QED
  BY <1>1, <1>2, <1>3, <1>4, <1>5, <1>6, <1>7 DEF CommandsNext, vars

LEMMA ChildInductive == CommandsSpec => [](ChildOK /\ Stages /\ Handed)
<1>1. Init /\ Idle => ChildOK /\ Stages /\ Handed
  BY EmptyIsStr DEF Idle, ChildOK, Stages, Handed, Runs
<1>2. IInv /\ ChildOK /\ Stages /\ Handed /\ [CommandsNext]_<<vars, forked>> => ChildOK' /\ Stages' /\ Handed'
  BY ChildNext, HandedNext
<1>3. QED
  BY <1>1, <1>2, CommandsInductive, PTL DEF CommandsSpec, CommandsInit

(* A forked command keeps its types: what is left of PATH, the path it executes,
   the strings it is handed and the status it leaves. *)
THEOREM CommandsTyped == CommandsSpec => []CommandsTypeOK
<1>1. ChildOK /\ TypeOK => CommandsTypeOK
  BY DEF ChildOK, CommandsTypeOK
<1>2. QED
  BY <1>1, ChildInductive, EnvTypeOK, PTL

-----------------------------------------------------------------------------
(* A list of strings that has every entry with an '=' is the variables. *)
LEMMA SeesVariables ==
  ASSUME IInv, NamesFound, Unique, NEW g, DOMAIN g \subseteq 1 .. Seen,
         \A m \in DOMAIN g : g[m] = arr[m - 1],
         \A m \in 1 .. Seen : IsSet(arr[m - 1]) => m \in DOMAIN g
  PROVE  LET set == {j \in DOMAIN g : KeyLen(g[j]) < Len(g[j])}
         IN /\ \A j, k \in set : KeyOf(g[j]) = KeyOf(g[k]) => j = k
            /\ {<<KeyOf(g[j]), ValueOf(g[j])>> : j \in set} = {<<n, Values[n]>> : n \in Names}
<1> DEFINE set == {j \in DOMAIN g : KeyLen(g[j]) < Len(g[j])}
<1>1. Seen \in Nat /\ \A j \in 0 .. Seen - 1 : arr[j] \in Str
  BY SeenIs DEF IInv, SeenOK
<1>2. ASSUME NEW j \in set
      PROVE  /\ j \in 1 .. Seen /\ j - 1 \in 0 .. Seen - 1 /\ g[j] = arr[j - 1] /\ g[j] \in Str
             /\ Plain(KeyOf(g[j])) /\ Matches(g[j], KeyOf(g[j]))
  <2>1. j \in 1 .. Seen /\ j - 1 \in 0 .. Seen - 1 /\ g[j] = arr[j - 1]
    BY <1>1
  <2>2. g[j] \in Str /\ KeyLen(g[j]) < Len(g[j])
    BY <1>1, <2>1
  <2>3. Plain(KeyOf(g[j])) /\ Matches(g[j], KeyOf(g[j]))
    BY <2>2, KeyPlain, KeyMatches
  <2>4. QED
    BY <2>1, <2>2, <2>3
<1>3. ASSUME NEW j \in set, NEW k \in set, KeyOf(g[j]) = KeyOf(g[k]) PROVE j = k
  <2> HIDE DEF set
  <2>1. PICK n : n = KeyOf(g[j])
    OBVIOUS
  <2>2. j - 1 \in Found(n) /\ k - 1 \in Found(n) /\ Plain(n) /\ j \in Int /\ k \in Int
    BY <1>2, <1>3, <2>1 DEF Found
  <2>3. j - 1 = k - 1
    BY <2>2 DEF Unique
  <2>4. QED
    BY <2>2, <2>3
<1>4. ASSUME NEW j \in set
      PROVE  KeyOf(g[j]) \in Names /\ ValueOf(g[j]) = Values[KeyOf(g[j])]
  <2> HIDE DEF set
  <2>1. PICK e : e = g[j]
    OBVIOUS
  <2>2. PICK n : n = KeyOf(e)
    OBVIOUS
  <2>3. e \in Str /\ Plain(n) /\ Matches(e, n) /\ e = arr[j - 1] /\ j - 1 \in 0 .. Seen - 1 /\ j - 1 # -1
    BY <1>2, <2>1, <2>2
  <2>4. n \in Names /\ find_key(n) = j - 1
    BY <2>3, EntryOf
  <2>5. Values[n] = From(e, Len(n) + 2)
    BY <2>3, <2>4 DEF Values, env_get
  <2>6. Len(n) = KeyLen(e)
    <3>1. Len(e) \in Nat /\ KeyLen(e) \in 0 .. Len(e) /\ \A m \in 1 .. Len(e) : e[m] \in Char
      BY <2>3, KeyLenIs, LenProperties, ElementOfSeq DEF Str
    <3>2. QED
      BY <2>2, <3>1, SubSeqProperties DEF KeyOf, Prefix
  <2>7. QED
    BY <2>1, <2>2, <2>4, <2>5, <2>6 DEF ValueOf
<1>5. ASSUME NEW n \in Names PROVE \E j \in set : KeyOf(g[j]) = n
  <2>1. Plain(n) /\ find_key(n) \in Found(n)
    BY DEF NamesFound
  <2>2. PICK i : i = find_key(n)
    OBVIOUS
  <2>3. i \in 0 .. Seen - 1 /\ Matches(arr[i], n) /\ arr[i] \in Str
    BY <1>1, <2>1, <2>2 DEF Found
  <2>4. KeyOf(arr[i]) = n /\ IsSet(arr[i])
    BY <2>1, <2>3, KeyMatches DEF IsSet
  <2>5. i + 1 \in 1 .. Seen /\ (i + 1) - 1 = i
    BY <1>1, <2>3
  <2>6. i + 1 \in DOMAIN g /\ g[i + 1] = arr[i]
    BY <2>4, <2>5
  <2>7. i + 1 \in set
    BY <2>4, <2>6 DEF IsSet
  <2>8. QED
    BY <2>4, <2>6, <2>7
<1>6. {<<KeyOf(g[j]), ValueOf(g[j])>> : j \in set} = {<<n, Values[n]>> : n \in Names}
  <2> HIDE DEF set
  <2>1. QED
    BY <1>4, <1>5
<1>7. QED
  BY <1>3, <1>6

(* A program, and env, see exactly the shell's variables (env.c:43, exec.c:27,
   echo_pwd_env.c:59), when the environment at the start had no duplicates. *)
THEOREM ChildSees == ASSUME NamedOnce PROVE CommandsSpec => []ChildSeesVariables
<1>1. IInv => NamesFound
  BY LayoutNames DEF IInv
<1>2. IInv /\ NamesFound /\ Unique /\ Handed => ChildSeesVariables
  <2> SUFFICES ASSUME IInv, NamesFound, Unique, Handed,
                      status = Runs \/ (stage = "over" /\ child.name = "env" /\ status = 0)
               PROVE  LET set == {j \in DOMAIN given : KeyLen(given[j]) < Len(given[j])}
                      IN /\ \A j, k \in set : KeyOf(given[j]) = KeyOf(given[k]) => j = k
                         /\ {<<KeyOf(given[j]), ValueOf(given[j])>> : j \in set} = {<<n, Values[n]>> : n \in Names}
    BY DEF ChildSeesVariables
  <2>1. given = Environ \/ given = Printed(Seen)
    BY DEF Handed
  <2>2. PICK g : g = given
    OBVIOUS
  <2>3. Seen \in Nat /\ \A j \in 0 .. Seen - 1 : arr[j] \in Str
    BY SeenIs DEF IInv, SeenOK
  <2>4. /\ DOMAIN g \subseteq 1 .. Seen /\ \A m \in DOMAIN g : g[m] = arr[m - 1]
        /\ \A m \in 1 .. Seen : IsSet(arr[m - 1]) => m \in DOMAIN g
    <3>1. CASE g = Environ
      BY <3>1, EnvironIs
    <3>2. CASE g = Printed(Seen)
      <4>1. ASSUME NEW m \in 1 .. Seen, IsSet(arr[m - 1]) PROVE \E j \in DOMAIN arr[m - 1] : arr[m - 1][j] = "="
        <5>1. PICK e : e = arr[m - 1]
          OBVIOUS
        <5>2. e \in Str
          BY <2>3, <4>1, <5>1
        <5>3. KeyLen(e) \in 0 .. Len(e) /\ KeyLen(e) < Len(e) /\ e[KeyLen(e) + 1] = "=" /\ DOMAIN e = 1 .. Len(e)
          BY <4>1, <5>1, <5>2, KeyLenIs, LenProperties DEF IsSet, Str
        <5>4. KeyLen(e) + 1 \in DOMAIN e
          BY <5>2, <5>3, LenProperties DEF Str
        <5>5. QED
          BY <5>1, <5>3, <5>4
      <4>2. QED
        BY <3>2, <4>1 DEF Printed
    <3>3. QED
      BY <2>1, <2>2, <3>1, <3>2
  <2>5. QED
    BY <2>2, <2>4, SeesVariables
<1>3. CommandsSpec => [](Unique /\ Importing)
  BY UniqueInductive
<1>4. QED
  BY <1>1, <1>2, <1>3, CommandsInductive, ChildInductive, PTL

-----------------------------------------------------------------------------
(* The search of PATH: what directories disappearing cannot do. *)
LEMMA KindStays ==
  ASSUME gone \subseteq gone', cwd' = cwd, NEW p
  PROVE  /\ ~ Access(p) => ~ Access(p)'
         /\ Kind(p) = "absent" => Kind(p)' = "absent"
<1>1. ASSUME NEW q PROVE Resolve(q)' \in Dirs => Resolve(q)' = Resolve(q) /\ Resolve(q) \in Dirs
  <2>1. PICK w, c : w = Way(q) /\ c = ft_split(q, "/")
    OBVIOUS
  <2>2. Way(q)' = w
    BY <2>1 DEF Way
  <2>3. Resolve(q) = IF q # <<>> /\ \A n \in DOMAIN c : IsName(c[n]) => w[n + 1] \in Dirs \ gone
                     THEN Last(w) ELSE Null
    BY <2>1 DEF Resolve
  <2>4. Resolve(q)' = IF q # <<>> /\ \A n \in DOMAIN c : IsName(c[n]) => w[n + 1] \in Dirs \ gone'
                      THEN Last(w) ELSE Null
    BY <2>1, <2>2 DEF Resolve
  <2>5. Null \notin Dirs
    BY EnvAssumption
  <2>6. QED
    BY <2>3, <2>4, <2>5
<1>2. PICK d, e, n : d = Directory(p) /\ n = Name(p) /\ e = Resolve(d)
  OBVIOUS
<1>3. Kind(p) = IF Resolve(p) \in Dirs THEN "directory"
                ELSE IF e \in Dirs \ gone /\ Below(e, n) \in DOMAIN Files THEN Files[Below(e, n)] ELSE "absent"
  BY <1>2 DEF Kind
<1>4. PICK f : f = Resolve(d)'
  OBVIOUS
<1>5. Kind(p)' = IF Resolve(p)' \in Dirs THEN "directory"
                 ELSE IF f \in Dirs \ gone' /\ Below(f, n) \in DOMAIN Files THEN Files[Below(f, n)] ELSE "absent"
  BY <1>2, <1>4 DEF Kind
<1>6. f \in Dirs => f = e
  BY <1>1, <1>2, <1>4
<1>7. Resolve(p)' \in Dirs => Resolve(p) \in Dirs
  BY <1>1
<1>8. QED
  BY <1>3, <1>5, <1>6, <1>7 DEF Access

(* No component among the first n has anything to execute. *)
Tried(ws, cmd, n) == failed \/ \A m \in 1 .. n : ~ Access(join_path(ws[m], cmd))

(* A string that was lost hid PATH, and the lookup died of it. *)
Died == status = 139 /\ env_get(PATH) = Null /\ lost

(* Where the search for cmd is in the components ws of PATH, of which there
   are none when PATH is not set. *)
SearchAt(ws, cmd) ==
    /\ stage = "access" =>
          \E n \in 0 .. Len(ws) : /\ Len(parts) = Len(ws) - n
                                  /\ \A m \in 1 .. Len(parts) : parts[m] = ws[n + m]
                                  /\ Tried(ws, cmd, n)
    /\ stage \in {"execve", "over"} /\ path # Null =>
          \E n \in 1 .. Len(ws) : path = join_path(ws[n], cmd) /\ Tried(ws, cmd, n - 1)
    /\ stage = "over" =>
          /\ path = Null => (status = 127 /\ Tried(ws, cmd, Len(ws))) \/ Died
          /\ path # Null /\ status = 127 => Kind(path) = "absent"

PlainWord(c) == c.name = "program" /\ c.args # <<>> /\ c.args[1] # <<>> /\ Slashes(c.args[1]) = {}
Places       == IF env_get(PATH) = Null THEN <<>> ELSE ft_split(env_get(PATH), ":")

Searching == /\ stage = "access" => PlainWord(child)
             /\ stage # "idle" /\ PlainWord(child) => SearchAt(Places, child.args[1])

LEMMA PlacesType == Layout => Places \in Seq(Str)
  BY PathType, SplitType, EmptyIsStr DEF Places

LEMMA TriedStays ==
  ASSUME gone \subseteq gone', cwd' = cwd, failed => failed', NEW ws, NEW cmd, NEW n, Tried(ws, cmd, n)
  PROVE  Tried(ws, cmd, n)'
<1>1. ASSUME NEW m \in 1 .. n, ~ Access(join_path(ws[m], cmd)) PROVE ~ Access(join_path(ws[m], cmd))'
  <2>1. PICK p : p = join_path(ws[m], cmd)
    OBVIOUS
  <2>2. ~ Access(p)'
    BY <1>1, <2>1, KindStays
  <2>3. join_path(ws[m], cmd)' = p
    BY <2>1 DEF join_path
  <2>4. QED
    BY <2>1, <2>2 DEF join_path
<1>2. QED
  BY <1>1 DEF Tried

(* A directory is removed during the search. *)
LEMMA SearchStays ==
  ASSUME gone \subseteq gone', cwd' = cwd, failed => failed', UNCHANGED <<forked, env, lost>>,
         NEW ws, NEW cmd, SearchAt(ws, cmd)
  PROVE  SearchAt(ws, cmd)'
<1> DEFINE T(n) == Tried(ws, cmd, n)
<1>1. \A n : T(n) => T(n)'
  BY TriedStays
<1>2. UNCHANGED <<stage, parts, path, status>>
  BY DEF forked
<1>3. PICK p : p = path
  OBVIOUS
<1>4. Kind(path) = "absent" => Kind(path)' = "absent"
  <2>1. Kind(p) = "absent" => Kind(p)' = "absent"
    BY KindStays
  <2>2. QED
    BY <1>2, <1>3, <2>1
<1>5. \A n : join_path(ws[n], cmd)' = join_path(ws[n], cmd)
  BY DEF join_path
<1>6. Died' <=> Died
  BY DEF Died, forked, env, env_get, find_key, Found, Seen, Before
<1> HIDE DEF T
<1>7. SearchAt(ws, cmd) <=>
    /\ stage = "access" =>
          \E n \in 0 .. Len(ws) : /\ Len(parts) = Len(ws) - n
                                  /\ \A m \in 1 .. Len(parts) : parts[m] = ws[n + m]
                                  /\ T(n)
    /\ stage \in {"execve", "over"} /\ path # Null =>
          \E n \in 1 .. Len(ws) : path = join_path(ws[n], cmd) /\ T(n - 1)
    /\ stage = "over" =>
          /\ path = Null => (status = 127 /\ T(Len(ws))) \/ Died
          /\ path # Null /\ status = 127 => Kind(path) = "absent"
  BY DEF SearchAt, T
<1>8. SearchAt(ws, cmd)' <=>
    /\ stage = "access" =>
          \E n \in 0 .. Len(ws) : /\ Len(parts) = Len(ws) - n
                                  /\ \A m \in 1 .. Len(parts) : parts[m] = ws[n + m]
                                  /\ T(n)'
    /\ stage \in {"execve", "over"} /\ path # Null =>
          \E n \in 1 .. Len(ws) : path = join_path(ws[n], cmd) /\ T(n - 1)'
    /\ stage = "over" =>
          /\ path = Null => (status = 127 /\ T(Len(ws))') \/ Died
          /\ path # Null /\ status = 127 => Kind(path)' = "absent"
  BY <1>2, <1>5, <1>6 DEF SearchAt, T
<1>9. QED
  BY <1>1, <1>4, <1>7, <1>8

(* The search begins. *)
LEMMA SearchBegins ==
  ASSUME IInv, Stages, NEW c \in Forked, child_exec(c)
  PROVE  Searching'
<1>1. stage = "idle" /\ child' = c /\ UNCHANGED <<env, place>> /\ path = Null
  BY DEF child_exec, Stages, Idle, Quietly
<1>2. UNCHANGED Places
  BY <1>1 DEF env, Places, env_get, find_key, Found, Seen, Before
<1>3. PICK ws : ws = Places
  OBVIOUS
<1>4. ws \in Seq(Str) /\ Len(ws) \in Nat
  BY <1>3, PlacesType, LenProperties DEF IInv
<1>5. PICK cmd : cmd = c.args[1]
  OBVIOUS
<1>6. CASE NoProgram(c)
  <2>1. ~ PlainWord(c) /\ stage' = "over"
    BY <1>6 DEF NoProgram, PlainWord, Ends
  <2>2. QED
    BY <1>1, <2>1 DEF Searching, PlainWord
<1>7. CASE bi_env(c) \/ bi_pwd(c)
  <2>1. ~ PlainWord(c) /\ stage' = "over"
    BY <1>7 DEF bi_env, bi_pwd, PlainWord, Ends
  <2>2. QED
    BY <1>1, <2>1 DEF Searching, PlainWord
<1>8. CASE find_exec_path(c)
  <2>1. c.name = "program" /\ c.args # <<>> /\ c.args[1] # <<>>
    BY <1>8 DEF find_exec_path
  <2>2. CASE Slashes(c.args[1]) # {} /\ stage' = "execve"
    <3>1. ~ PlainWord(c)
      BY <2>2 DEF PlainWord
    <3>2. QED
      BY <1>1, <2>2, <3>1 DEF Searching, PlainWord
  <2>3. CASE /\ Slashes(c.args[1]) = {} /\ env_get(PATH) # Null
             /\ parts' = ft_split(env_get(PATH), ":") /\ stage' = "access"
    <3>1. parts' = ws /\ 0 \in 0 .. Len(ws) /\ Tried(ws, cmd, 0)'
      BY <1>3, <1>4, <2>3 DEF Places, Tried
    <3>2. Len(parts') = Len(ws) - 0 /\ \A m \in 1 .. Len(ws) : parts'[m] = ws[0 + m]
      BY <1>4, <3>1
    <3>3. SearchAt(ws, cmd)'
      BY <2>3, <3>1, <3>2 DEF SearchAt
    <3>4. PlainWord(c)
      BY <2>1, <2>3 DEF PlainWord
    <3>5. QED
      BY <1>1, <1>2, <1>3, <1>5, <2>3, <3>3, <3>4 DEF Searching
  <2>4. CASE Ends(127) /\ path' = Null /\ (env_get(PATH) = Null \/ failed')
    <3>1. Tried(ws, cmd, Len(ws))'
      <4>1. CASE failed'
        BY <4>1 DEF Tried
      <4>2. CASE env_get(PATH) = Null
        BY <1>3, <1>4, <4>2, EmptySeq DEF Places, Tried
      <4>3. QED
        BY <2>4, <4>1, <4>2
    <3>2. SearchAt(ws, cmd)'
      BY <2>4, <3>1 DEF SearchAt, Ends
    <3>3. QED
      BY <1>1, <1>2, <1>3, <1>5, <2>4, <3>2 DEF Searching, Ends
  <2>5. CASE Ends(139) /\ path' = Null /\ env_get(PATH) = Null /\ Dies(PATH)
    <3>1. lost
      <4>1. Layout /\ len \in Nat
        BY DEF IInv, Layout
      <4>2. Seen < len /\ SeenOK
        BY <2>5, <4>1, SeenIs DEF Dies
      <4>3. Seen \in 0 .. len - 1 /\ arr[Seen] = Null
        BY <4>1, <4>2 DEF SeenOK
      <4>4. QED
        BY <4>3 DEF IInv, Holes
    <3>2. UNCHANGED <<env, lost>>
      BY DEF child_exec, Quietly
    <3>3. UNCHANGED env_get(PATH)
      BY <1>1 DEF env, env_get, find_key, Found, Seen, Before
    <3>4. Died'
      BY <2>5, <3>1, <3>2, <3>3 DEF Died, Ends
    <3>5. SearchAt(ws, cmd)'
      BY <2>5, <3>4 DEF SearchAt, Ends
    <3>6. QED
      BY <1>1, <1>2, <1>3, <1>5, <2>5, <3>5 DEF Searching, Ends
  <2>6. QED
    BY <1>1, <1>8, <2>2, <2>3, <2>4, <2>5 DEF find_exec_path
<1>9. QED
  BY <1>6, <1>7, <1>8 DEF child_exec

(* A turn of the loop. *)
LEMMA SearchGoesOn ==
  ASSUME ChildOK, Stages, search, NEW ws \in Seq(Str), NEW cmd, cmd = child.args[1], SearchAt(ws, cmd)
  PROVE  SearchAt(ws, cmd)'
<1>1. /\ stage = "access" /\ path = Null /\ parts \in Seq(Str) /\ Len(ws) \in Nat
      /\ UNCHANGED <<cwd, gone, child>>
  BY LenProperties DEF search, Stages, ChildOK, Quietly, place
<1>2. PICK n \in 0 .. Len(ws) : /\ Len(parts) = Len(ws) - n
                                /\ \A m \in 1 .. Len(parts) : parts[m] = ws[n + m]
                                /\ Tried(ws, cmd, n)
  BY <1>1 DEF SearchAt
<1>3. CASE parts = <<>> /\ Ends(127) /\ UNCHANGED <<parts, path, failed>>
  <2>1. n = Len(ws)
    <3>1. Len(parts) = 0
      BY <1>3, EmptySeq
    <3>2. QED
      BY <1>1, <1>2, <3>1
  <2>2. Tried(ws, cmd, Len(ws))'
    BY <1>1, <1>2, <1>3, <2>1, TriedStays
  <2>3. QED
    BY <1>1, <1>3, <2>2 DEF SearchAt, Ends
<1>4. ASSUME parts # <<>>
      PROVE  Head(parts) = ws[n + 1] /\ n + 1 \in 1 .. Len(ws) /\ (n + 1) - 1 = n /\ Len(parts) \in Nat \ {0}
  <2>1. Len(parts) \in Nat \ {0} /\ Head(parts) = parts[1]
    BY <1>1, <1>4, EmptySeq, LenProperties
  <2>2. PICK l, z : l = Len(parts) /\ z = Len(ws)
    OBVIOUS
  <2>3. l \in Nat \ {0} /\ z \in Nat /\ n \in 0 .. z /\ l = z - n
    BY <1>1, <1>2, <2>1, <2>2
  <2>4. 1 \in 1 .. l /\ n + 1 \in 1 .. z /\ (n + 1) - 1 = n
    BY <2>3
  <2>5. parts[1] = ws[n + 1]
    BY <1>2, <2>2, <2>4
  <2>6. QED
    BY <2>1, <2>2, <2>4, <2>5
<1>5. CASE /\ parts # <<>> /\ path' = join_path(Head(parts), cmd) /\ stage' = "execve"
           /\ UNCHANGED <<parts, status, failed>>
  <2>1. path' = join_path(ws[n + 1], cmd)
    BY <1>4, <1>5
  <2>2. Tried(ws, cmd, (n + 1) - 1)'
    BY <1>1, <1>2, <1>4, <1>5, TriedStays
  <2>3. n + 1 \in 1 .. Len(ws)
    BY <1>4, <1>5
  <2>4. \E o \in 1 .. Len(ws) : path' = join_path(ws[o], cmd) /\ Tried(ws, cmd, o - 1)'
    BY <2>1, <2>2, <2>3
  <2>5. QED
    BY <1>5, <2>4 DEF SearchAt, join_path
<1>6. CASE /\ parts # <<>> /\ parts' = Tail(parts) /\ UNCHANGED <<stage, path, status>>
           /\ (failed' = TRUE \/ (~ Access(join_path(Head(parts), cmd)) /\ UNCHANGED failed))
  <2>1. Len(parts') = Len(parts) - 1 /\ \A m \in 1 .. Len(parts) - 1 : parts'[m] = parts[m + 1]
    BY <1>1, <1>6, HeadTailProperties
  <2>2. Len(parts') = Len(ws) - (n + 1)
    BY <1>1, <1>2, <1>4, <1>6, <2>1
  <2>3. ASSUME NEW m \in 1 .. Len(parts') PROVE parts'[m] = ws[(n + 1) + m]
    <3>1. m + 1 \in 1 .. Len(parts) /\ n + (m + 1) = (n + 1) + m /\ m \in 1 .. Len(parts) - 1
      BY <1>4, <1>6, <2>1
    <3>2. QED
      BY <1>2, <2>1, <3>1
  <2>4. Tried(ws, cmd, n + 1)'
    <3>1. CASE failed' = TRUE
      BY <3>1 DEF Tried
    <3>2. CASE ~ Access(join_path(Head(parts), cmd)) /\ UNCHANGED failed
      <4>1. ~ Access(join_path(ws[n + 1], cmd))
        BY <1>4, <1>6, <3>2
      <4>2. Tried(ws, cmd, n + 1)
        <5>1. \A m \in 1 .. n + 1 : m \in 1 .. n \/ m = n + 1
          OBVIOUS
        <5>2. QED
          BY <1>2, <4>1, <5>1 DEF Tried
      <4>3. QED
        BY <1>1, <3>2, <4>2, TriedStays
    <3>3. QED
      BY <1>6, <3>1, <3>2
  <2>5. n + 1 \in 0 .. Len(ws)
    BY <1>4, <1>6
  <2>6. \E o \in 0 .. Len(ws) : /\ Len(parts') = Len(ws) - o
                                /\ \A m \in 1 .. Len(parts') : parts'[m] = ws[o + m]
                                /\ Tried(ws, cmd, o)'
    BY <2>2, <2>3, <2>4, <2>5
  <2>7. stage' = "access"
    BY <1>1, <1>6
  <2>8. QED
    BY <2>6, <2>7 DEF SearchAt
<1>7. QED
  BY <1>3, <1>5, <1>6 DEF search

LEMMA SearchEnds ==
  ASSUME Stages, execve, NEW ws, NEW cmd, SearchAt(ws, cmd)
  PROVE  SearchAt(ws, cmd)'
<1>1. stage = "execve" /\ stage' = "over" /\ path # Null /\ UNCHANGED <<cwd, gone, failed, path>>
  BY DEF execve, Ends, Stages, Quietly, place
<1>2. PICK n \in 1 .. Len(ws) : path = join_path(ws[n], cmd) /\ Tried(ws, cmd, n - 1)
  BY <1>1 DEF SearchAt
<1>3. Tried(ws, cmd, n - 1)'
  BY <1>1, <1>2, TriedStays
<1>4. \E o \in 1 .. Len(ws) : path' = join_path(ws[o], cmd) /\ Tried(ws, cmd, o - 1)'
  BY <1>1, <1>2, <1>3
<1>5. status' = 127 => Kind(path) = "absent"
  BY DEF execve, Ends, Runs
<1>6. Kind(path) = "absent" => Kind(path)' = "absent"
  <2>1. PICK p : p = path
    OBVIOUS
  <2>2. Kind(p) = "absent" => Kind(p)' = "absent"
    BY <1>1, KindStays
  <2>3. QED
    BY <1>1, <2>1, <2>2
<1>7. QED
  BY <1>1, <1>4, <1>5, <1>6 DEF SearchAt, join_path

LEMMA SearchingNext ==
  ASSUME IInv, ChildOK, Stages, Searching, [CommandsNext]_<<vars, forked>>
  PROVE  Searching'
<1>1. PICK ws : ws = Places
  OBVIOUS
<1>2. PICK cmd : cmd = child.args[1]
  OBVIOUS
<1>3. ws \in Seq(Str)
  BY <1>1, PlacesType DEF IInv
<1>4. UNCHANGED env => UNCHANGED Places
  BY DEF env, Places, env_get, find_key, Found, Seen, Before
<1>5. CASE UNCHANGED <<forked, env, lost>> /\ gone \subseteq gone' /\ cwd' = cwd /\ (failed => failed')
  <2>1. SearchAt(ws, cmd) => SearchAt(ws, cmd)'
    BY <1>5, SearchStays
  <2>2. UNCHANGED <<stage, child>>
    BY <1>5 DEF forked
  <2>3. QED
    BY <1>1, <1>2, <1>4, <1>5, <2>1, <2>2 DEF Searching, PlainWord
<1>6. CASE stage = "idle" /\ UNCHANGED forked
  BY <1>6 DEF forked, Searching
<1>7. ASSUME NEW c \in Forked, child_exec(c) PROVE Searching'
  BY <1>7, SearchBegins
<1>8. CASE search
  <2>1. stage = "access" /\ UNCHANGED <<env, child>>
    BY <1>8 DEF search, Quietly
  <2>2. PlainWord(child) /\ SearchAt(ws, cmd)
    BY <1>1, <1>2, <2>1 DEF Searching
  <2>3. SearchAt(ws, cmd)'
    BY <1>2, <1>3, <1>8, <2>2, SearchGoesOn
  <2>4. PlainWord(child)'
    BY <2>1, <2>2 DEF PlainWord
  <2>5. QED
    BY <1>1, <1>2, <1>4, <2>1, <2>3, <2>4 DEF Searching
<1>9. CASE execve
  <2>1. stage = "execve" /\ stage' = "over" /\ UNCHANGED <<env, child>>
    BY <1>9 DEF execve, Quietly, Ends
  <2>2. PlainWord(child) => SearchAt(ws, cmd)'
    BY <1>1, <1>2, <1>9, <2>1, SearchEnds DEF Searching
  <2>3. QED
    BY <1>1, <1>2, <1>4, <2>1, <2>2 DEF Searching, PlainWord
<1>10. CASE Reap
  BY <1>10 DEF Reap, Searching
<1>11. ASSUME NEW d \in Dirs, Rmdir(d), UNCHANGED forked PROVE Searching'
  BY <1>5, <1>11 DEF Rmdir
<1>12. CASE UNCHANGED <<vars, forked>>
  BY <1>5, <1>12 DEF vars, place
<1>13. QED
  BY <1>6, <1>7, <1>8, <1>9, <1>10, <1>11, <1>12 DEF CommandsNext

(* The words of ft_split are the components of PATH, in their order. *)
LEMMA ComponentsAre ==
  ASSUME NEW s \in Str, NEW ws, NEW a, NEW b, Cut(s, ":", Len(s), ws, a, b)
  PROVE  /\ \A n \in 1 .. Len(ws) : <<a[n], b[n]>> \in Components(s)
         /\ \A k \in Components(s) : \E n \in 1 .. Len(ws) : k = <<a[n], b[n]>>
<1>1. Len(s) \in Nat
  BY LenProperties DEF Str
<1>2. ASSUME NEW n \in 1 .. Len(ws) PROVE <<a[n], b[n]>> \in Components(s)
  <2>1. /\ a[n] \in 1 .. Len(s) /\ b[n] \in 1 .. Len(s) /\ a[n] <= b[n]
        /\ \A m \in a[n] .. b[n] : s[m] # ":"
        /\ a[n] = 1 \/ s[a[n] - 1] = ":"
        /\ b[n] = Len(s) \/ s[b[n] + 1] = ":"
    BY DEF Cut
  <2>2. PICK x, y : x = a[n] /\ y = b[n]
    OBVIOUS
  <2>3. <<x, y>> \in Components(s)
    BY <2>1, <2>2 DEF Components
  <2>4. QED
    BY <2>2, <2>3
<1>3. ASSUME NEW k \in Components(s) PROVE \E n \in 1 .. Len(ws) : k = <<a[n], b[n]>>
  <2>1. PICK x \in 1 .. Len(s), y \in 1 .. Len(s) : k = <<x, y>>
    BY DEF Components
  <2>2. /\ x <= y /\ \A m \in x .. y : s[m] # ":"
        /\ x = 1 \/ s[x - 1] = ":"
        /\ y = Len(s) \/ s[y + 1] = ":"
    BY <2>1 DEF Components
  <2>3. s[x] # ":"
    BY <2>2
  <2>4. PICK n \in 1 .. Len(ws) : x \in a[n] .. b[n]
    BY <2>3 DEF Cut
  <2>5. PICK p, q : p = a[n] /\ q = b[n]
    OBVIOUS
  <2>6. /\ p \in 1 .. Len(s) /\ q \in 1 .. Len(s) /\ p <= x /\ x <= q
        /\ \A m \in p .. q : s[m] # ":"
        /\ p = 1 \/ s[p - 1] = ":"
        /\ q = Len(s) \/ s[q + 1] = ":"
    <3>1. /\ a[n] \in 1 .. Len(s) /\ b[n] \in 1 .. Len(s)
          /\ \A m \in a[n] .. b[n] : s[m] # ":"
          /\ a[n] = 1 \/ s[a[n] - 1] = ":"
          /\ b[n] = Len(s) \/ s[b[n] + 1] = ":"
      BY <2>4 DEF Cut
    <3>2. QED
      BY <1>1, <2>4, <2>5, <3>1
  <2>7. p = x
    <3>1. CASE p < x
      <4>1. x - 1 \in p .. q /\ x # 1
        BY <2>6, <3>1
      <4>2. QED
        BY <2>2, <2>6, <4>1
    <3>2. QED
      BY <2>6, <3>1
  <2>8. q = y
    <3>1. CASE q < y
      <4>1. q + 1 \in x .. y /\ q # Len(s)
        BY <2>6, <3>1, <1>1
      <4>2. QED
        BY <2>2, <2>6, <4>1
    <3>2. CASE y < q
      <4>1. y + 1 \in p .. q /\ y # Len(s)
        BY <2>6, <2>2, <3>2, <1>1
      <4>2. QED
        BY <2>2, <2>6, <4>1
    <3>3. QED
      BY <2>6, <3>1, <3>2
  <2>9. QED
    BY <2>1, <2>5, <2>7, <2>8
<1>4. QED
  BY <1>2, <1>3

(* find_exec_path runs the first thing of that name that PATH has
   (path.c:46, exec.c:27), for every PATH, file system and word. *)
THEOREM RunsFirst == CommandsSpec => []RunsTheFirst
<1>1. Init /\ Idle => Searching
  BY DEF Idle, Searching
<1>2. IInv /\ ChildOK /\ Stages /\ Searching /\ [CommandsNext]_<<vars, forked>> => Searching'
  BY SearchingNext
<1>3. IInv /\ Stages /\ Searching => RunsTheFirst
  <2> SUFFICES ASSUME IInv, Stages, Searching, stage = "over", PlainWord(child)
               PROVE  LET cmd    == child.args[1]
                          value  == env_get(PATH)
                          places == IF value = Null THEN {} ELSE Components(value)
                          At(k)  == SubSeq(value, k[1], k[2]) \o <<"/">> \o cmd
                      IN /\ path = Null => \/ status = 127 /\ (failed \/ \A k \in places : ~ Access(At(k)))
                                           \/ status = 139 /\ value = Null /\ lost
                         /\ path # Null => \E k \in places :
                               /\ path = At(k)
                               /\ failed \/ \A o \in places : o[1] < k[1] => ~ Access(At(o))
                               /\ status = 127 => Kind(path) = "absent"
    BY DEF RunsTheFirst, PlainWord
  <2>1. PICK cmd : cmd = child.args[1]
    OBVIOUS
  <2>2. PICK value : value = env_get(PATH)
    OBVIOUS
  <2>3. PICK ws : ws = Places
    OBVIOUS
  <2>4. SearchAt(ws, cmd)
    BY <2>1, <2>3 DEF Searching
  <2> DEFINE places == IF value = Null THEN {} ELSE Components(value)
             At(k)  == SubSeq(value, k[1], k[2]) \o <<"/">> \o cmd
  <2>5. CASE value = Null
    <3>1. ws = <<>> /\ Len(ws) = 0
      BY <2>2, <2>3, <2>5, EmptySeq DEF Places
    <3>2. path = Null /\ (status = 127 \/ Died)
      BY <2>4, <3>1 DEF SearchAt
    <3>3. QED
      BY <2>1, <2>2, <2>5, <3>2 DEF Died
  <2>6. CASE value # Null
    <3>1. value \in Str /\ ws = ft_split(value, ":")
      BY <2>2, <2>3, <2>6, PathType DEF Places, IInv
    <3>2. PICK a, b : Cut(value, ":", Len(value), ws, a, b)
      BY <3>1, SplitIs
    <3>3. /\ \A n \in 1 .. Len(ws) : <<a[n], b[n]>> \in places
          /\ \A k \in places : \E n \in 1 .. Len(ws) : k = <<a[n], b[n]>>
      BY <2>6, <3>1, <3>2, ComponentsAre
    <3>4. ASSUME NEW n \in 1 .. Len(ws) PROVE At(<<a[n], b[n]>>) = join_path(ws[n], cmd)
      BY <3>2 DEF Cut, join_path
    <3>5. Len(ws) \in Nat
      BY <3>2, LenProperties DEF Cut
    <3>6. ASSUME NEW n \in 1 .. Len(ws), NEW m \in 1 .. Len(ws), a[m] < a[n] PROVE m \in 1 .. n - 1
      <4>1. /\ a[m] \in 1 .. Len(value) /\ a[n] \in 1 .. Len(value) /\ b[n] \in 1 .. Len(value)
            /\ a[n] <= b[n] /\ (n < m => b[n] < a[m])
        BY <3>2 DEF Cut
      <4>2. n # m
        BY <3>6, <4>1
      <4>3. QED
        BY <3>5, <3>6, <4>1, <4>2
    <3> HIDE DEF places, At
    <3>7. ASSUME path = Null PROVE status = 127 /\ (failed \/ \A k \in places : ~ Access(At(k)))
      <4>1. status = 127 /\ Tried(ws, cmd, Len(ws))
        BY <2>2, <2>4, <2>6, <3>7 DEF SearchAt, Died
      <4>2. ASSUME ~ failed, NEW k \in places PROVE ~ Access(At(k))
        <5>1. PICK n \in 1 .. Len(ws) : k = <<a[n], b[n]>>
          BY <3>3
        <5>2. ~ Access(join_path(ws[n], cmd))
          BY <4>1, <4>2 DEF Tried
        <5>3. QED
          BY <3>4, <5>1, <5>2
      <4>3. QED
        BY <4>1, <4>2
    <3>8. ASSUME path # Null
          PROVE  \E k \in places : /\ path = At(k)
                                   /\ failed \/ \A o \in places : o[1] < k[1] => ~ Access(At(o))
                                   /\ status = 127 => Kind(path) = "absent"
      <4>1. PICK n \in 1 .. Len(ws) : path = join_path(ws[n], cmd) /\ Tried(ws, cmd, n - 1)
        BY <2>4, <3>8 DEF SearchAt
      <4>2. status = 127 => Kind(path) = "absent"
        BY <2>4, <3>8 DEF SearchAt
      <4>3. <<a[n], b[n]>> \in places /\ path = At(<<a[n], b[n]>>)
        BY <3>3, <3>4, <4>1
      <4>4. ASSUME ~ failed, NEW o \in places, o[1] < <<a[n], b[n]>>[1] PROVE ~ Access(At(o))
        <5>1. PICK m \in 1 .. Len(ws) : o = <<a[m], b[m]>>
          BY <3>3
        <5>2. m \in 1 .. n - 1
          BY <3>6, <4>4, <5>1
        <5>3. ~ Access(join_path(ws[m], cmd))
          BY <4>1, <4>4, <5>2 DEF Tried
        <5>4. QED
          BY <3>4, <5>1, <5>3
      <4>5. QED
        BY <4>2, <4>3, <4>4
    <3>9. QED
      BY <2>1, <2>2, <3>7, <3>8 DEF places, At
  <2>7. QED
    BY <2>5, <2>6
<1>4. QED
  BY <1>1, <1>2, <1>3, CommandsInductive, ChildInductive, PTL DEF CommandsSpec, CommandsInit
=============================================================================
