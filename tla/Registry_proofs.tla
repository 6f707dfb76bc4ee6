-------------------------- MODULE Registry_proofs --------------------------
(***************************************************************************)
(* Proofs about the schema registry, for any sessions, jobs, columns,      *)
(* schemas, and numbers of versions and mishaps.  Sessions may overlap and *)
(* register any number of times.                                           *)
(***************************************************************************)
EXTENDS Registry, TLAPS

-----------------------------------------------------------------------------
\* Schemas and types.

\* A schema is a function on some of the names.
LEMMA SchemaIs ==
  ASSUME NEW T, NEW s
  PROVE  s \in Schema(T) <=> DOMAIN s \subseteq Names /\ s \in [DOMAIN s -> T]
  BY DEF Schema

\* Every frame has an Avro schema.
LEMMA ToAvroTyped ==
  ASSUME NEW fr \in Schema(SparkType)
  PROVE  ToAvroType(fr) \in Schema(AvroType)
<1>1. DOMAIN fr \subseteq Names /\ \A name \in DOMAIN fr : fr[name] \in SparkType
  BY SchemaIs
<1>2. ToAvroType(fr) \in [DOMAIN fr -> AvroType]
  BY <1>1 DEF ToAvroType, SparkType, AvroType
<1>3. DOMAIN ToAvroType(fr) = DOMAIN fr
  BY DEF ToAvroType
<1> QED
  BY <1>1, <1>2, <1>3, SchemaIs

\* Every definition has Spark types.
LEMMA TypeMapTyped ==
  ASSUME NEW fields \in Schema(AvroType)
  PROVE  TypeMap(fields) \in Schema(SparkType)
<1>1. DOMAIN fields \subseteq Names /\ \A name \in DOMAIN fields : fields[name] \in AvroType
  BY SchemaIs
<1>2. TypeMap(fields) \in [DOMAIN fields -> SparkType]
  BY <1>1 DEF TypeMap, SparkType, AvroType
<1>3. DOMAIN TypeMap(fields) = DOMAIN fields
  BY DEF TypeMap
<1> QED
  BY <1>1, <1>2, <1>3, SchemaIs

\* The changes between two schemas.
LEMMA CompareTyped ==
  ASSUME NEW old \in Schema(SparkType), NEW new \in Schema(SparkType)
  PROVE  Compare(old, new) \in Change
<1>1. /\ DOMAIN old \subseteq Names /\ \A name \in DOMAIN old : old[name] \in SparkType
      /\ DOMAIN new \subseteq Names /\ \A name \in DOMAIN new : new[name] \in SparkType
  BY SchemaIs
<1>2. {<<name, new[name]>> : name \in DOMAIN new \ DOMAIN old}
        \in SUBSET (Names \X SparkType)
  BY <1>1
<1>3. {<<name, old[name]>> : name \in DOMAIN old \ DOMAIN new}
        \in SUBSET (Names \X SparkType)
  BY <1>1
<1>4. {<<name, old[name], new[name]>> : name \in
         {same \in DOMAIN old \cap DOMAIN new : old[same] # new[same]}}
        \in SUBSET (Names \X SparkType \X SparkType)
  BY <1>1
<1> QED
  BY <1>2, <1>3, <1>4 DEF Compare, Change

\* Two schemas without changes are the same.
LEMMA CompareDecides ==
  ASSUME NEW old \in Schema(SparkType), NEW new \in Schema(SparkType),
         Unchanged(Compare(old, new))
  PROVE  old = new
<1>1. /\ {<<name, new[name]>> : name \in DOMAIN new \ DOMAIN old} = {}
      /\ {<<name, old[name]>> : name \in DOMAIN old \ DOMAIN new} = {}
      /\ {<<name, old[name], new[name]>> : name \in
            {same \in DOMAIN old \cap DOMAIN new : old[same] # new[same]}} = {}
  BY DEF Compare, Unchanged
<1>2. DOMAIN old = DOMAIN new /\ \A name \in DOMAIN old : old[name] = new[name]
  BY <1>1
<1>3. old \in [DOMAIN old -> SparkType] /\ new \in [DOMAIN new -> SparkType]
  BY SchemaIs
<1> QED
  BY <1>2, <1>3

\* A session or a job is called by its phase.
Phases == {"idle", "listed", "ready", "validate", "done", "rejected", "raised"}

\* A user that moves on is in a phase again.
LEMMA PhaseNames ==
    \A u \in User, phase \in Phases :
       pc \in [User -> Phases] /\ Goto(u, phase) => pc' \in [User -> Phases]
  BY DEF Goto

\* The blank values of the local variables.
LEMMA Blanks == /\ NoFields \in Schema(AvroType) /\ NoFields \in Schema(SparkType)
                /\ FirstVersion \in Version /\ 0 \in 0 .. MaxMishaps
<1>1. DOMAIN NoFields = {} /\ NoFields \in [{} -> AvroType] /\ NoFields \in [{} -> SparkType]
  BY DEF NoFields
<1>2. FirstVersion \in Version /\ 0 \in 0 .. MaxMishaps
  BY RegistryAssumption DEF Version
<1> QED
  BY <1>1, <1>2, SchemaIs

\* A call that raises stays within the bound.
LEMMA MishapTyped == ASSUME TypeOK, Mishap PROVE mishaps' \in 0 .. MaxMishaps
  BY RegistryAssumption DEF TypeOK, Mishap

\* A new file is a well-formed file.
LEMMA NewFileTyped ==
  ASSUME TypeOK, NEW u \in User, NEW fr \in Frames
  PROVE  NewFile(u, fr) \in File
<1>1. ToAvroType(fr) \in Schema(AvroType)
  BY RegistryAssumption, ToAvroTyped
<1>2. definition[u] \in Schema(AvroType)
  BY DEF TypeOK
<1>3. /\ TypeMap(ToAvroType(fr)) \in Schema(SparkType)
      /\ Columns(u) \in Schema(SparkType)
  BY <1>1, <1>2, TypeMapTyped DEF Columns
<1>4. Compare(Columns(u), TypeMap(ToAvroType(fr))) \in Change
  BY <1>3, CompareTyped
<1> QED
  BY <1>1, <1>4 DEF NewFile, File

\* What registering does to the files, whatever happens to the caller.
LEMMA RegisterFiles ==
  ASSUME TypeOK, NEW u \in Sessions, Register(u)
  PROVE  \E fr \in Frames :
            /\ frame' = [frame EXCEPT ![u] = fr] /\ ~Unchanged(NewFile(u, fr).changes)
            /\ DOMAIN files' = DOMAIN files \cup {version[u] + 1}
            /\ files'[version[u] + 1] = NewFile(u, fr)
            /\ \A v \in DOMAIN files \ {version[u] + 1} : files'[v] = files[v]
  BY DEF Register, NextVersion

\* What is held of a version that was listed is in the bucket.
Held == \A u \in User : pc[u] \notin {"idle", "raised"} => version[u] \in DOMAIN files

\* The steps that leave the files alone keep what is held.
LEMMA HeldQuiet ==
  ASSUME TypeOK, Held, files' = files, NEW u \in User, NEW phase \in Phases, Goto(u, phase),
         version' = version, phase # "raised" => pc[u] \notin {"idle", "raised"}
  PROVE  Held'
  BY DEF Held, Goto, TypeOK

\* Types are kept, and what is held is in the bucket.
LEMMA RegistryHeld == Spec => [](TypeOK /\ Held)
<1>1. Init => TypeOK /\ Held
  <2> SUFFICES ASSUME Init PROVE TypeOK /\ Held
    OBVIOUS
  <2>1. NoChanges \in Change
    BY DEF NoChanges, Change
  <2>2. ASSUME NEW fr \in Frames
        PROVE  [fields |-> ToAvroType(fr), changes |-> NoChanges] \in File
    BY <2>1, ToAvroTyped, RegistryAssumption DEF File
  <2>3. DOMAIN files \subseteq Version /\ \A v \in DOMAIN files : files[v] \in File
    BY <2>2, Blanks DEF Init
  <2> QED
    BY <2>3, Blanks DEF Init, TypeOK, Held
<1>2. TypeOK /\ Held /\ [Next]_vars => TypeOK' /\ Held'
  <2> SUFFICES ASSUME TypeOK, Held, [Next]_vars PROVE TypeOK' /\ Held'
    OBVIOUS
  <2> USE DEF locals, observed, Phases
  <2>1. ASSUME NEW u \in User, List(u) PROVE TypeOK' /\ Held'
    <3>1. PICK v \in Version : v \in DOMAIN files /\ version' = [version EXCEPT ![u] = v]
      BY <2>1 DEF List, Latest
    <3>2. TypeOK'
      BY <2>1, <3>1 DEF List, Goto, TypeOK
    <3> QED
      BY <2>1, <3>1, <3>2 DEF List, Goto, TypeOK, Held
  <2>2. ASSUME NEW u \in User, NoVersions(u) \/ Raise(u) PROVE TypeOK' /\ Held'
    BY <2>2, MishapTyped, HeldQuiet DEF NoVersions, Raise, Goto, TypeOK
  <2>3. ASSUME NEW u \in User, Load(u) PROVE TypeOK' /\ Held'
    <3>1. files[version[u]].fields \in Schema(AvroType)
      BY <2>3 DEF Load, Held, TypeOK, File
    <3>2. definition' \in [User -> Schema(AvroType)]
      BY <2>3, <3>1 DEF Load, TypeOK
    <3>3. TypeOK'
      BY <2>3, <3>2 DEF Load, Goto, TypeOK
    <3>4. Held'
      BY <2>3, HeldQuiet DEF Load
    <3> QED
      BY <3>3, <3>4
  <2>4. ASSUME NEW u \in Sessions, Register(u) PROVE TypeOK' /\ Held'
    <3>1. u \in User /\ pc[u] \in {"ready", "done"} /\ version[u] + 1 \in Version
      <4>1. u \in User /\ version[u] \in Version
        BY DEF User, TypeOK
      <4> QED
        BY <2>4, <4>1, RegistryAssumption DEF Register, NextVersion, Version
    <3>2. PICK fr \in Frames :
            /\ frame' = [frame EXCEPT ![u] = fr]
            /\ DOMAIN files' = DOMAIN files \cup {version[u] + 1}
            /\ files'[version[u] + 1] = NewFile(u, fr)
            /\ \A v \in DOMAIN files \ {version[u] + 1} : files'[v] = files[v]
      BY <2>4, RegisterFiles
    <3>3. NewFile(u, fr) \in File /\ fr \in Schema(SparkType)
      BY <3>1, NewFileTyped, RegistryAssumption
    <3>4. DOMAIN files' \subseteq Version /\ \A v \in DOMAIN files' : files'[v] \in File
      BY <3>1, <3>2, <3>3 DEF TypeOK
    <3>5. /\ pc' \in [User -> Phases] /\ mishaps' \in 0 .. MaxMishaps
          /\ \A w \in User \ {u} : pc'[w] = pc[w]
      BY <2>4, <3>1, MishapTyped DEF Register, Goto, TypeOK
    <3>6. frame' \in [User -> Schema(SparkType)]
      BY <3>2, <3>3 DEF TypeOK
    <3>7. fresh' \subseteq User /\ overwritten' \subseteq Version \X Schema(AvroType)
      <4>1. {<<v, files[v].fields>> : v \in DOMAIN files \cap {NextVersion(u)}}
              \subseteq Version \X Schema(AvroType)
        BY DEF TypeOK, File
      <4> QED
        BY <2>4, <4>1 DEF Register, TypeOK
    <3>8. TypeOK'
      BY <2>4, <3>4, <3>5, <3>6, <3>7 DEF Register, TypeOK
    <3>9. Held'
      BY <2>4, <3>1, <3>2, <3>5 DEF Register, Held
    <3> QED
      BY <3>8, <3>9
  <2>5. ASSUME NEW u \in Sessions, SkipRegister(u) PROVE TypeOK' /\ Held'
    <3>1. u \in User
      BY DEF User
    <3>2. frame' \in [User -> Schema(SparkType)]
      BY <2>5, <3>1, RegistryAssumption DEF SkipRegister, TypeOK
    <3>3. TypeOK'
      BY <2>5, <3>1, <3>2 DEF SkipRegister, Goto, TypeOK
    <3>4. Held'
      BY <2>5, <3>1, HeldQuiet DEF SkipRegister
    <3> QED
      BY <3>3, <3>4
  <2>6. ASSUME NEW j \in Jobs, ReadSource(j) PROVE TypeOK' /\ Held'
    <3>1. j \in User
      BY DEF User
    <3>2. frame' \in [User -> Schema(SparkType)]
      BY <2>6, <3>1, RegistryAssumption DEF ReadSource, TypeOK
    <3>3. TypeOK'
      BY <2>6, <3>1, <3>2, MishapTyped DEF ReadSource, Goto, TypeOK
    <3>4. Held'
      BY <2>6, <3>1, HeldQuiet DEF ReadSource
    <3> QED
      BY <3>3, <3>4
  <2>7. ASSUME NEW j \in Jobs, ProcessFailFast(j) PROVE TypeOK' /\ Held'
    <3>1. j \in User
      BY DEF User
    <3>2. Held'
      BY <2>7, <3>1, HeldQuiet DEF ProcessFailFast
    <3> QED
      BY <2>7, <3>1, <3>2 DEF ProcessFailFast, Goto, TypeOK
  <2>8. CASE UNCHANGED vars
    BY <2>8 DEF vars, TypeOK, Held
  <2> QED
    BY <2>1, <2>2, <2>3, <2>4, <2>5, <2>6, <2>7, <2>8 DEF Next
<1> QED
  BY <1>1, <1>2, PTL DEF Spec

\* The files of the registry and the local variables keep their types.
THEOREM RegistryTyped == Spec => []TypeOK
  BY RegistryHeld, PTL

-----------------------------------------------------------------------------
\* What a registration does to the versions that are there.

\* Only registering touches the files.
LEMMA OnlyRegister ==
  ASSUME [Next]_vars, files' # files
  PROVE  \E u \in Sessions : Register(u)
  BY DEF Next, List, NoVersions, Load, Raise, SkipRegister, ReadSource, ProcessFailFast, vars

\* A registration writes a version that follows one in the bucket.
LEMMA RegisterFollows ==
  ASSUME TypeOK, Held, NEW u \in Sessions, Register(u)
  PROVE  /\ version[u] \in DOMAIN files /\ version[u] \in Nat
         /\ version[u] + 1 # FirstVersion /\ DOMAIN files \subseteq Nat
<1>1. u \in User /\ pc[u] \in {"ready", "done"}
  BY DEF Register, User
<1>2. version[u] \in DOMAIN files /\ version[u] \in Version
  BY <1>1 DEF Held, TypeOK
<1> QED
  BY <1>2, RegistryAssumption DEF TypeOK, Version

\* What Said means after the step.
SaidThen(v, d) == d = files'[v].fields \/ <<v, d>> \in overwritten'

\* What a version has said is not forgotten when it is overwritten.
LEMMA SaidStays ==
  ASSUME TypeOK, NEW u \in Sessions, Register(u),
         NEW v \in DOMAIN files, NEW d, Said(v, d)
  PROVE  v \in DOMAIN files' /\ SaidThen(v, d)
<1>1. /\ DOMAIN files' = DOMAIN files \cup {version[u] + 1}
      /\ \A w \in DOMAIN files \ {version[u] + 1} : files'[w] = files[w]
  BY RegisterFiles
<1>2. overwritten' = overwritten \cup
        {<<w, files[w].fields>> : w \in DOMAIN files \cap {version[u] + 1}}
  BY DEF Register, NextVersion
<1>3. CASE <<v, d>> \in overwritten
  BY <1>1, <1>2, <1>3 DEF SaidThen
<1>4. CASE d = files[v].fields /\ v = version[u] + 1
  BY <1>1, <1>2, <1>4 DEF SaidThen
<1>5. CASE d = files[v].fields /\ v # version[u] + 1
  BY <1>1, <1>5 DEF SaidThen
<1> QED
  BY <1>3, <1>4, <1>5 DEF Said

-----------------------------------------------------------------------------
\* The inductive invariant of the chain of versions.

\* Who has listed the files since the last registration holds the latest one.
Front == \A u \in fresh : Latest(version[u])

\* No version below another is missing.
Gapless == \A v \in DOMAIN files, w \in Version : w <= v => w \in DOMAIN files

Chained == Front /\ Gapless /\ ContractConsistent /\ ChangesChain /\ RegisteredFound

\* A step that leaves the files, and what is known of them, alone keeps the
\* chain.
LEMMA ChainQuiet ==
  ASSUME Chained, UNCHANGED <<files, version, definition, fresh, overwritten>>,
         \A u \in User : pc'[u] \in {"ready", "validate", "done", "rejected"} =>
            pc[u] \in {"ready", "validate", "done", "rejected"},
         RegisteredFound'
  PROVE  Chained'
<1>1. Front' /\ Gapless'
  BY DEF Chained, Front, Gapless, Latest
<1>2. ContractConsistent' /\ ChangesChain'
  BY DEF Chained, ContractConsistent, ChangesChain, Said
<1> QED
  BY <1>1, <1>2 DEF Chained

\* What was found stays found while nobody finishes and files stay.
LEMMA FoundQuiet ==
  ASSUME RegisteredFound, UNCHANGED <<files, overwritten>>,
         \A u \in Sessions : pc'[u] = "done" => pc[u] = "done" /\ frame'[u] = frame[u]
  PROVE  RegisteredFound'
  BY DEF RegisteredFound, Said

\* A registration extends the chain, or puts another link in the place of one.
LEMMA ChainRegister ==
  ASSUME TypeOK, TypeOK', Held, Chained, NEW u \in Sessions, Register(u)
  PROVE  Chained'
<1>1. /\ Front /\ Gapless /\ ContractConsistent /\ ChangesChain /\ RegisteredFound
      /\ u \in User /\ pc[u] \in {"ready", "done"}
  BY DEF Chained, Register, User
<1> DEFINE next == version[u] + 1
<1>2. PICK fr \in Frames :
        /\ frame' = [frame EXCEPT ![u] = fr]
        /\ ~Unchanged(NewFile(u, fr).changes)
        /\ DOMAIN files' = DOMAIN files \cup {next}
        /\ files'[next] = NewFile(u, fr)
        /\ \A v \in DOMAIN files \ {next} : files'[v] = files[v]
  BY RegisterFiles
<1>3. frame'[u] = fr /\ ToAvroType(fr) \in Schema(AvroType)
  BY <1>1, <1>2, ToAvroTyped, RegistryAssumption DEF TypeOK
<1>4. /\ version[u] \in DOMAIN files /\ version[u] \in Nat
      /\ DOMAIN files \subseteq Nat /\ DOMAIN files' \subseteq Nat
  BY <1>2, RegisterFollows
<1>5. /\ UNCHANGED <<version, definition>> /\ pc'[u] \in {"done", "raised"}
      /\ \A w \in User \ {u} : pc'[w] = pc[w] /\ frame'[w] = frame[w]
  BY <1>1, <1>2 DEF Register, Goto, TypeOK
<1>6. Front'
  BY DEF Register, Front
<1>7. Gapless'
  <2> SUFFICES ASSUME NEW v \in DOMAIN files', NEW w \in Version, w <= v
               PROVE  w \in DOMAIN files'
    BY DEF Gapless
  <2>1. w \in Nat /\ v \in Nat
    BY <1>4, RegistryAssumption DEF Version
  <2>2. CASE v = next
    <3>1. w = next \/ w <= version[u]
      BY <1>4, <2>1, <2>2
    <3> QED
      BY <1>1, <1>2, <1>4, <3>1 DEF Gapless
  <2>3. CASE v \in DOMAIN files
    BY <1>1, <1>2, <2>3 DEF Gapless
  <2> QED
    BY <1>2, <2>2, <2>3
<1>8. ContractConsistent'
  <2> SUFFICES ASSUME NEW w \in User, pc'[w] \in {"ready", "validate", "done", "rejected"}
               PROVE  version'[w] \in DOMAIN files' /\ SaidThen(version'[w], definition'[w])
    BY DEF ContractConsistent, Said, SaidThen
  <2>1. version[w] \in DOMAIN files /\ Said(version[w], definition[w])
    BY <1>1, <1>5 DEF ContractConsistent
  <2> QED
    BY <1>5, <2>1, SaidStays
<1>9. ChangesChain'
  <2> SUFFICES ASSUME NEW v \in DOMAIN files' \ {FirstVersion}
               PROVE  /\ v - 1 \in DOMAIN files'
                      /\ ~Unchanged(files'[v].changes)
                      /\ \E d \in Schema(AvroType) :
                           /\ SaidThen(v - 1, d)
                           /\ files'[v].changes
                                = Compare(TypeMap(d), TypeMap(files'[v].fields))
    BY DEF ChangesChain, Said, SaidThen
  <2>1. CASE v = next
    <3>1. v - 1 = version[u] /\ definition[u] \in Schema(AvroType)
      BY <1>1, <1>4, <2>1 DEF TypeOK
    <3>2. Said(v - 1, definition[u])
      BY <1>1, <3>1 DEF ContractConsistent
    <3>3. v - 1 \in DOMAIN files' /\ SaidThen(v - 1, definition[u])
      BY <1>4, <3>1, <3>2, SaidStays
    <3>4. files'[v].changes = Compare(TypeMap(definition[u]), TypeMap(files'[v].fields))
      BY <1>2, <2>1 DEF NewFile, Columns
    <3> QED
      BY <1>2, <2>1, <3>1, <3>3, <3>4
  <2>2. CASE v # next
    <3>1. v \in DOMAIN files /\ files'[v] = files[v]
      BY <1>2, <2>2
    <3>2. PICK d \in Schema(AvroType) :
            /\ Said(v - 1, d)
            /\ files[v].changes = Compare(TypeMap(d), TypeMap(files[v].fields))
      BY <1>1, <3>1 DEF ChangesChain
    <3>3. v - 1 \in DOMAIN files /\ ~Unchanged(files[v].changes)
      BY <1>1, <3>1 DEF ChangesChain
    <3>4. v - 1 \in DOMAIN files' /\ SaidThen(v - 1, d)
      BY <3>2, <3>3, SaidStays
    <3> QED
      BY <3>1, <3>2, <3>3, <3>4
  <2> QED
    BY <2>1, <2>2
<1>10. RegisteredFound'
  <2> SUFFICES ASSUME NEW w \in Sessions, pc'[w] = "done"
               PROVE  \E v \in DOMAIN files', d \in Schema(AvroType) :
                        SaidThen(v, d) /\ TypeMap(d) = TypeMap(ToAvroType(frame'[w]))
    BY DEF RegisteredFound, Said, SaidThen
  <2>1. CASE w = u
    <3>1. next \in DOMAIN files' /\ SaidThen(next, ToAvroType(fr))
      BY <1>2 DEF NewFile, SaidThen
    <3> QED
      BY <1>3, <2>1, <3>1
  <2>2. CASE w # u
    <3>1. pc[w] = "done" /\ frame'[w] = frame[w]
      BY <1>5, <2>2 DEF User
    <3>2. PICK v \in DOMAIN files, d \in Schema(AvroType) :
            Said(v, d) /\ TypeMap(d) = TypeMap(ToAvroType(frame[w]))
      BY <1>1, <3>1 DEF RegisteredFound
    <3>3. v \in DOMAIN files' /\ SaidThen(v, d)
      BY <3>2, SaidStays
    <3> QED
      BY <3>1, <3>2, <3>3
  <2> QED
    BY <2>1, <2>2
<1> QED
  BY <1>6, <1>7, <1>8, <1>9, <1>10 DEF Chained

\* The chain of versions holds in every reachable state.
LEMMA RegistryChained == Spec => []Chained
<1>1. Init => Chained
  <2> SUFFICES ASSUME Init PROVE Chained
    OBVIOUS
  <2>1. \A u \in User : pc[u] = "idle"
    BY DEF Init
  <2>2. DOMAIN files \subseteq {FirstVersion} /\ fresh = {}
    BY DEF Init
  <2>3. Gapless
    BY <2>2, RegistryAssumption DEF Gapless, Version
  <2> QED
    BY <2>1, <2>2, <2>3 DEF Chained, Front, ContractConsistent, ChangesChain,
       RegisteredFound, User
<1>2. TypeOK /\ TypeOK' /\ Held /\ Held' /\ Chained /\ [Next]_vars => Chained'
  <2> SUFFICES ASSUME TypeOK, TypeOK', Held, Held', Chained, [Next]_vars PROVE Chained'
    OBVIOUS
  <2> USE DEF locals, observed
  <2>1. Front /\ Gapless /\ ContractConsistent /\ ChangesChain /\ RegisteredFound
    BY DEF Chained
  <2>2. ASSUME NEW u \in User, List(u) PROVE Chained'
    <3>1. PICK v \in Version : Latest(v) /\ version' = [version EXCEPT ![u] = v]
      BY <2>2 DEF List
    <3>2. /\ pc[u] = "idle" /\ pc'[u] = "listed" /\ version'[u] = v
          /\ UNCHANGED <<files, definition, frame, overwritten>> /\ fresh' = fresh \cup {u}
          /\ \A w \in User \ {u} : pc'[w] = pc[w] /\ version'[w] = version[w]
      BY <2>2, <3>1 DEF List, Goto, TypeOK
    <3>3. Front'
      BY <2>1, <3>1, <3>2 DEF Front, Latest, TypeOK
    <3>4. Gapless' /\ ContractConsistent' /\ ChangesChain'
      BY <2>1, <3>2 DEF Gapless, ContractConsistent, ChangesChain, Said
    <3>5. RegisteredFound'
      BY <2>1, <3>2 DEF RegisteredFound, Said, User
    <3> QED
      BY <3>3, <3>4, <3>5 DEF Chained
  <2>3. ASSUME NEW u \in User, Load(u) PROVE Chained'
    <3>1. /\ pc[u] = "listed" /\ pc'[u] = "ready"
          /\ definition'[u] = files[version[u]].fields
          /\ UNCHANGED <<files, version, frame, fresh, overwritten>>
          /\ \A w \in User \ {u} : pc'[w] = pc[w] /\ definition'[w] = definition[w]
      BY <2>3 DEF Load, Goto, TypeOK
    <3>2. version[u] \in DOMAIN files
      BY <3>1 DEF Held
    <3>3. Front' /\ Gapless'
      BY <2>1, <3>1 DEF Front, Gapless, Latest
    <3>4. ContractConsistent' /\ ChangesChain'
      BY <2>1, <3>1, <3>2 DEF ContractConsistent, ChangesChain, Said
    <3>5. RegisteredFound'
      BY <2>1, <3>1 DEF RegisteredFound, Said, User
    <3> QED
      BY <3>3, <3>4, <3>5 DEF Chained
  <2>4. ASSUME NEW u \in User, NoVersions(u) \/ Raise(u) PROVE Chained'
    <3>1. /\ UNCHANGED <<files, version, definition, frame, fresh, overwritten>>
          /\ pc'[u] = "raised" /\ \A w \in User \ {u} : pc'[w] = pc[w]
      BY <2>4 DEF NoVersions, Raise, Goto, TypeOK
    <3> QED
      BY <2>1, <3>1, ChainQuiet, FoundQuiet DEF User
  <2>5. ASSUME NEW u \in Sessions, SkipRegister(u) PROVE Chained'
    <3>1. /\ UNCHANGED <<files, version, definition, fresh, overwritten>> /\ u \in User
          /\ pc[u] \in {"ready", "done"} /\ pc'[u] = "done"
          /\ \A w \in User \ {u} : pc'[w] = pc[w] /\ frame'[w] = frame[w]
      BY <2>5 DEF SkipRegister, Goto, TypeOK, User
    <3>2. PICK fr \in Frames : frame'[u] = fr /\ Unchanged(NewFile(u, fr).changes)
      BY <2>5, <3>1 DEF SkipRegister, TypeOK
    <3>3. /\ Columns(u) \in Schema(SparkType)
          /\ TypeMap(ToAvroType(fr)) \in Schema(SparkType)
          /\ definition[u] \in Schema(AvroType)
      BY <3>1, TypeMapTyped, ToAvroTyped, RegistryAssumption DEF Columns, TypeOK
    <3>4. TypeMap(definition[u]) = TypeMap(ToAvroType(frame'[u]))
      BY <3>2, <3>3, CompareDecides DEF NewFile, Columns
    <3>5. version[u] \in DOMAIN files /\ Said(version[u], definition[u])
      BY <2>1, <3>1 DEF ContractConsistent
    <3>6. RegisteredFound'
      <4> SUFFICES ASSUME NEW w \in Sessions, pc'[w] = "done"
                   PROVE  \E v \in DOMAIN files, d \in Schema(AvroType) :
                            Said(v, d) /\ TypeMap(d) = TypeMap(ToAvroType(frame'[w]))
        BY <3>1 DEF RegisteredFound, Said
      <4>1. CASE w = u
        BY <3>3, <3>4, <3>5, <4>1
      <4>2. CASE w # u
        BY <2>1, <3>1, <4>2 DEF RegisteredFound, User
      <4> QED
        BY <4>1, <4>2
    <3> QED
      BY <3>1, <3>6, ChainQuiet
  <2>6. ASSUME NEW j \in Jobs, ReadSource(j) PROVE Chained'
    <3>1. /\ UNCHANGED <<files, version, definition, fresh, overwritten>> /\ j \in User
          /\ pc[j] = "ready" /\ pc'[j] \in {"validate", "raised"}
          /\ \A w \in User \ {j} : pc'[w] = pc[w] /\ frame'[w] = frame[w]
      BY <2>6 DEF ReadSource, Goto, TypeOK, User
    <3> QED
      BY <2>1, <3>1, ChainQuiet, FoundQuiet DEF User
  <2>7. ASSUME NEW j \in Jobs, ProcessFailFast(j) PROVE Chained'
    <3>1. /\ UNCHANGED <<files, version, definition, frame, fresh, overwritten>>
          /\ j \in User /\ pc[j] = "validate" /\ pc'[j] = "rejected"
          /\ \A w \in User \ {j} : pc'[w] = pc[w]
      BY <2>7 DEF ProcessFailFast, Goto, TypeOK, User
    <3> QED
      BY <2>1, <3>1, ChainQuiet, FoundQuiet DEF User
  <2>8. CASE UNCHANGED vars
    BY <2>1, <2>8, ChainQuiet, FoundQuiet DEF vars
  <2> QED
    BY <2>2, <2>3, <2>4, <2>5, <2>6, <2>7, <2>8, ChainRegister DEF Next
<1> QED
  BY <1>1, <1>2, RegistryHeld, PTL DEF Spec

\* No version disappears, and only a session that has not listed the files
\* since the last registration changes one.
THEOREM RegistryRegisteredStay == Spec => RegisteredStay
<1>1. TypeOK /\ Held /\ Chained /\ [Next]_vars
      => [\A v \in DOMAIN files :
            /\ v \in DOMAIN files'
            /\ files'[v] # files[v] => \E u \in Sessions \ fresh : Register(u)]_files
  <2> SUFFICES ASSUME TypeOK, Held, Chained, [Next]_vars, files' # files,
                      NEW v \in DOMAIN files
               PROVE  /\ v \in DOMAIN files'
                      /\ files'[v] # files[v] => \E u \in Sessions \ fresh : Register(u)
    OBVIOUS
  <2>1. PICK u \in Sessions : Register(u)
    BY OnlyRegister
  <2>2. /\ DOMAIN files' = DOMAIN files \cup {version[u] + 1}
        /\ \A w \in DOMAIN files \ {version[u] + 1} : files'[w] = files[w]
    BY <2>1, RegisterFiles
  <2>3. version[u] \in Nat
    BY <2>1, RegisterFollows
  <2>4. ASSUME files'[v] # files[v] PROVE u \notin fresh
    <3>1. version[u] + 1 \in DOMAIN files
      BY <2>2, <2>4
    <3>2. ~Latest(version[u])
      BY <2>3, <3>1 DEF Latest
    <3> QED
      BY <3>2 DEF Chained, Front
  <2> QED
    BY <2>1, <2>2, <2>4
<1> QED
  BY <1>1, RegistryHeld, RegistryChained, PTL DEF Spec, RegisteredStay

\* The versions form a chain, and each records how it differs from what the
\* one before it says or has said.
THEOREM RegistryChangesChain == Spec => []ChangesChain
<1>1. Chained => ChangesChain
  BY DEF Chained
<1> QED
  BY <1>1, RegistryChained, PTL

\* Every object holds what the version that it names says or has said.
THEOREM RegistryContractConsistent == Spec => []ContractConsistent
<1>1. Chained => ContractConsistent
  BY DEF Chained
<1> QED
  BY <1>1, RegistryChained, PTL

\* Every registered schema is in the registry, or has been overwritten there.
THEOREM RegistryRegisteredFound == Spec => []RegisteredFound
<1>1. Chained => RegisteredFound
  BY DEF Chained
<1> QED
  BY <1>1, RegistryChained, PTL

\* The oldest version is not overwritten, whatever the sessions do.
OldestStays == [][(FirstVersion \in DOMAIN files) =>
                    /\ FirstVersion \in DOMAIN files'
                    /\ files'[FirstVersion] = files[FirstVersion]]_files

\* Outdated sessions overwrite what was registered, never the version that
\* was put into the bucket to begin with.
THEOREM RegistryOldestStays == Spec => OldestStays
<1>1. TypeOK /\ Held /\ [Next]_vars
      => [(FirstVersion \in DOMAIN files) =>
            /\ FirstVersion \in DOMAIN files'
            /\ files'[FirstVersion] = files[FirstVersion]]_files
  <2> SUFFICES ASSUME TypeOK, Held, [Next]_vars, files' # files,
                      FirstVersion \in DOMAIN files
               PROVE  /\ FirstVersion \in DOMAIN files'
                      /\ files'[FirstVersion] = files[FirstVersion]
    OBVIOUS
  <2>1. PICK u \in Sessions : Register(u)
    BY OnlyRegister
  <2>2. /\ DOMAIN files' = DOMAIN files \cup {version[u] + 1}
        /\ \A v \in DOMAIN files \ {version[u] + 1} : files'[v] = files[v]
    BY <2>1, RegisterFiles
  <2>3. version[u] + 1 # FirstVersion
    BY <2>1, RegisterFollows
  <2> QED
    BY <2>2, <2>3
<1> QED
  BY <1>1, RegistryHeld, PTL DEF Spec, OldestStays

-----------------------------------------------------------------------------
\* The registry implements SchemaHistory.

\* What is logged of the files.
LEMMA ContentsAre ==
  /\ DOMAIN Contents = DOMAIN files
  /\ \A v \in DOMAIN files : Contents[v] = files[v].fields
  BY DEF Contents

\* The newest version of the log is the latest file.
LEMMA NewestIsLatest == ASSUME NEW v, Latest(v) PROVE History!Newest(v)
  BY ContentsAre DEF Latest, History!Newest

\* A step of u that leaves the present files alone changes only what u holds.
LEMMA SnapshotsMove ==
  ASSUME Held, NEW u \in User,
         \A v \in DOMAIN files : v \in DOMAIN files' /\ files'[v] = files[v],
         \A w \in User \ {u} : /\ pc'[w] = pc[w] /\ version'[w] = version[w]
                               /\ definition'[w] = definition[w]
  PROVE  Snapshots' = [Snapshots EXCEPT ![u] = Snapshots'[u]]
<1>1. ASSUME NEW w \in User \ {u} PROVE Snapshots'[w] = Snapshots[w]
  <2>1. CASE pc[w] \in {"idle", "raised"}
    BY <2>1 DEF Snapshots
  <2>2. CASE pc[w] \notin {"idle", "raised"}
    <3>1. version[w] \in DOMAIN files
      BY <2>2 DEF Held
    <3>2. Snapshot(w)' = Snapshot(w)
      BY <3>1 DEF Snapshot
    <3> QED
      BY <2>2, <3>2 DEF Snapshots
  <2> QED
    BY <2>1, <2>2
<1> QED
  BY <1>1 DEF Snapshots

\* A step of u that does not change what u holds is a stutter.
LEMMA SnapshotsQuiet ==
  ASSUME Held, NEW u \in User, UNCHANGED <<files, version, definition>>,
         \A w \in User \ {u} : pc'[w] = pc[w],
         {pc[u], pc'[u]} \cap {"idle", "listed", "raised"} = {}
  PROVE  UNCHANGED History!vars
<1>1. Snapshots'[u] = Snapshots[u]
  BY DEF Snapshots, Snapshot
<1>2. Snapshots' = [Snapshots EXCEPT ![u] = Snapshots'[u]]
  BY SnapshotsMove
<1>3. Snapshots' = Snapshots
  BY <1>1, <1>2 DEF Snapshots
<1> QED
  BY <1>3 DEF History!vars, Contents

\* A step that ends u's work closes u's snapshot.
LEMMA SnapshotsClose ==
  ASSUME Held, NEW u \in User, UNCHANGED <<files, version, definition>>,
         \A w \in User \ {u} : pc'[w] = pc[w], pc'[u] = "raised"
  PROVE  History!Close(u)
<1>1. Snapshots'[u] = {}
  BY DEF Snapshots
<1>2. Snapshots' = [Snapshots EXCEPT ![u] = Snapshots'[u]]
  BY SnapshotsMove
<1> QED
  BY <1>1, <1>2 DEF History!Close, Contents

\* Listing takes a snapshot of the newest version.
LEMMA ListOpens ==
  ASSUME TypeOK, Held, NEW u \in User, List(u)
  PROVE  History!Open(u)
<1>1. PICK v \in Version : Latest(v) /\ version' = [version EXCEPT ![u] = v]
  BY DEF List
<1>2. /\ pc[u] = "idle" /\ pc'[u] = "listed" /\ version'[u] = v
      /\ UNCHANGED <<files, definition>>
      /\ \A w \in User \ {u} : pc'[w] = pc[w] /\ version'[w] = version[w]
  BY <1>1 DEF List, Goto, TypeOK
<1>3. v \in DOMAIN files
  BY <1>1 DEF Latest
<1>4. Snapshots[u] = {} /\ Snapshots'[u] = {[version |-> v, definition |-> Contents[v]]}
  BY <1>2, <1>3, ContentsAre DEF Snapshots, Snapshot
<1>5. Snapshots' = [Snapshots EXCEPT ![u] = Snapshots'[u]]
  BY <1>2, SnapshotsMove
<1> QED
  BY <1>1, <1>2, <1>3, <1>4, <1>5, NewestIsLatest, ContentsAre DEF History!Open, Contents

\* Loading completes the snapshot that was taken when the version was listed.
LEMMA LoadStutters ==
  ASSUME TypeOK, Held, NEW u \in User, Load(u)
  PROVE  UNCHANGED History!vars
<1>1. /\ pc[u] = "listed" /\ pc'[u] = "ready" /\ definition'[u] = files[version[u]].fields
      /\ UNCHANGED <<files, version>>
      /\ \A w \in User \ {u} : pc'[w] = pc[w] /\ definition'[w] = definition[w]
  BY DEF Load, Goto, TypeOK
<1>2. Snapshot(u)' = Snapshot(u)
  BY <1>1 DEF Snapshot
<1>3. Snapshots'[u] = Snapshots[u]
  BY <1>1, <1>2 DEF Snapshots
<1>4. Snapshots' = [Snapshots EXCEPT ![u] = Snapshots'[u]]
  BY <1>1, SnapshotsMove
<1>5. Snapshots' = Snapshots
  BY <1>3, <1>4 DEF Snapshots
<1> QED
  BY <1>1, <1>5 DEF History!vars, Contents

\* Registering appends, unless it overwrites.
LEMMA RegisterAppends ==
  ASSUME TypeOK, Held, Chained, NEW u \in Sessions, Register(u), overwritten' = {}
  PROVE  \E d \in Schema(AvroType) : History!Append(u, d)
<1>1. /\ u \in User /\ pc[u] \in {"ready", "done"} /\ version[u] + 1 \in Version
      /\ UNCHANGED <<version, definition>> /\ pc'[u] \in {"done", "raised"}
      /\ \A w \in User \ {u} : pc'[w] = pc[w]
  <2>1. u \in User /\ version[u] \in Version /\ version[u] + 1 <= MaxVersion
    BY DEF Register, NextVersion, TypeOK, User
  <2>2. version[u] + 1 \in Version
    BY <2>1, RegistryAssumption DEF Version
  <2> QED
    BY <2>1, <2>2 DEF Register, Goto, TypeOK
<1>2. PICK fr \in Frames :
        /\ ~Unchanged(NewFile(u, fr).changes)
        /\ DOMAIN files' = DOMAIN files \cup {version[u] + 1}
        /\ files'[version[u] + 1] = NewFile(u, fr)
        /\ \A v \in DOMAIN files \ {version[u] + 1} : files'[v] = files[v]
  BY RegisterFiles
<1>3. /\ version[u] \in DOMAIN files /\ Latest(version[u])
      /\ \A v \in DOMAIN files : v \in DOMAIN files' /\ files'[v] = files[v]
      /\ version[u] + 1 \notin DOMAIN files
  <2>1. version[u] + 1 \notin DOMAIN files
    <3>1. {<<v, files[v].fields>> : v \in DOMAIN files \cap {version[u] + 1}} = {}
      BY DEF Register, NextVersion
    <3> QED
      BY <3>1
  <2>2. /\ version[u] \in DOMAIN files /\ version[u] \in Nat
        /\ DOMAIN files \subseteq Nat
    BY RegisterFollows
  <2>3. ASSUME NEW v \in DOMAIN files PROVE v <= version[u]
    <3>1. ~(version[u] + 1 <= v)
      BY <1>1, <2>1 DEF Chained, Gapless
    <3> QED
      BY <2>2, <3>1
  <2> QED
    BY <1>2, <2>1, <2>2, <2>3 DEF Latest
<1> DEFINE d == ToAvroType(fr)
           snapshot == [version |-> version[u], definition |-> definition[u]]
<1>4. d \in Schema(AvroType)
  BY ToAvroTyped, RegistryAssumption
<1>5. d # definition[u]
  BY <1>2 DEF NewFile, Columns, Unchanged, Compare
<1>6. Contents' = [v \in DOMAIN Contents \cup {version[u] + 1} |->
                     IF v = version[u] + 1 THEN d ELSE Contents[v]]
  <2>1. files'[version[u] + 1].fields = d
    BY <1>2 DEF NewFile
  <2> QED
    BY <1>2, <1>3, <2>1 DEF Contents
<1>7. Snapshots[u] = {snapshot} /\ snapshot.version = version[u]
      /\ snapshot.definition = definition[u]
  BY <1>1 DEF Snapshots, Snapshot
<1>8. Snapshots' = [Snapshots EXCEPT ![u] = Snapshots'[u]]
  BY <1>1, <1>3, SnapshotsMove
<1>9. CASE pc'[u] = "done"
  <2>1. Snapshots'[u] = Snapshots[u]
    BY <1>1, <1>9 DEF Snapshots, Snapshot
  <2>2. Snapshots' = Snapshots
    BY <1>8, <2>1 DEF Snapshots
  <2> QED
    BY <1>1, <1>3, <1>4, <1>5, <1>6, <1>7, <2>2, NewestIsLatest DEF History!Append
<1>10. CASE pc'[u] = "raised"
  <2>1. Snapshots' = [Snapshots EXCEPT ![u] = {}]
    BY <1>1, <1>8, <1>10 DEF Snapshots
  <2> QED
    BY <1>1, <1>3, <1>4, <1>5, <1>6, <1>7, <2>1, NewestIsLatest DEF History!Append
<1> QED
  BY <1>1, <1>9, <1>10

\* Every step that leaves nothing overwritten is a step of the history, or none.
LEMMA StepOfHistory ==
  ASSUME TypeOK, Held, Chained, [Next]_vars, overwritten' = {}
  PROVE  [History!Next]_(History!vars)
<1> USE DEF locals, observed
<1>1. ASSUME NEW u \in User, List(u) PROVE History!Next
  BY <1>1, ListOpens DEF History!Next
<1>2. ASSUME NEW u \in User, NoVersions(u) \/ Raise(u) PROVE History!Next
  <2>1. /\ UNCHANGED <<files, version, definition>> /\ pc'[u] = "raised"
        /\ \A w \in User \ {u} : pc'[w] = pc[w]
    BY <1>2 DEF NoVersions, Raise, Goto, TypeOK
  <2> QED
    BY <2>1, SnapshotsClose DEF History!Next
<1>3. ASSUME NEW u \in User, Load(u) PROVE UNCHANGED History!vars
  BY <1>3, LoadStutters
<1>4. ASSUME NEW u \in Sessions, Register(u) PROVE History!Next
  BY <1>4, RegisterAppends DEF History!Next, User
<1>5. ASSUME NEW u \in Sessions, SkipRegister(u) PROVE UNCHANGED History!vars
  <2>1. /\ UNCHANGED <<files, version, definition>> /\ u \in User
        /\ pc[u] \in {"ready", "done"} /\ pc'[u] = "done"
        /\ \A w \in User \ {u} : pc'[w] = pc[w]
    BY <1>5 DEF SkipRegister, Goto, TypeOK, User
  <2> QED
    BY <2>1, SnapshotsQuiet
<1>6. ASSUME NEW j \in Jobs, ReadSource(j) PROVE [History!Next]_(History!vars)
  <2>1. /\ UNCHANGED <<files, version, definition>> /\ j \in User
        /\ pc[j] = "ready" /\ pc'[j] \in {"validate", "raised"}
        /\ \A w \in User \ {j} : pc'[w] = pc[w]
    BY <1>6 DEF ReadSource, Goto, TypeOK, User
  <2>2. CASE pc'[j] = "validate"
    BY <2>1, <2>2, SnapshotsQuiet
  <2>3. CASE pc'[j] = "raised"
    BY <2>1, <2>3, SnapshotsClose DEF History!Next
  <2> QED
    BY <2>1, <2>2, <2>3
<1>7. ASSUME NEW j \in Jobs, ProcessFailFast(j) PROVE UNCHANGED History!vars
  <2>1. /\ UNCHANGED <<files, version, definition>> /\ j \in User
        /\ pc[j] = "validate" /\ pc'[j] = "rejected"
        /\ \A w \in User \ {j} : pc'[w] = pc[w]
    BY <1>7 DEF ProcessFailFast, Goto, TypeOK, User
  <2> QED
    BY <2>1, SnapshotsQuiet
<1>8. CASE UNCHANGED vars
  BY <1>8 DEF vars, History!vars, Contents, Snapshots, Snapshot
<1> QED
  BY <1>1, <1>2, <1>3, <1>4, <1>5, <1>6, <1>7, <1>8 DEF Next

\* The bucket starts as a history with at most its first version.
LEMMA HistoryStarts == Init => History!Init
<1> SUFFICES ASSUME Init PROVE History!Init
  OBVIOUS
<1>1. Snapshots = [u \in User |-> {}]
  BY DEF Init, Snapshots
<1>2. CASE files = [v \in {} |-> NoFields]
  <2>1. Contents = [v \in {} |-> {}]
    BY <1>2 DEF Contents
  <2> QED
    BY <1>1, <2>1 DEF History!Init
<1>3. ASSUME NEW fr \in Frames,
             files = [v \in {FirstVersion} |-> [fields |-> ToAvroType(fr), changes |-> NoChanges]]
      PROVE  History!Init
  <2>1. Contents = [v \in {FirstVersion} |-> ToAvroType(fr)]
    BY <1>3 DEF Contents
  <2>2. ToAvroType(fr) \in Schema(AvroType)
    BY ToAvroTyped, RegistryAssumption
  <2> QED
    BY <1>1, <2>1, <2>2 DEF History!Init
<1> QED
  BY <1>2, <1>3 DEF Init

\* Until a version is overwritten, the registry is a log with an atomic
\* compare-and-append, opened by atomic snapshots.
THEOREM RegistryImplementsHistory == Spec => ImplementsHistory
<1>1. TypeOK /\ Held /\ Chained /\ [Next]_vars
      => [overwritten' = {} => History!Next]_(History!vars)
  BY StepOfHistory
<1> QED
  BY <1>1, HistoryStarts, RegistryHeld, RegistryChained, PTL
     DEF Spec, ImplementsHistory

\* Every session that registers has listed the files since the last
\* registration.
TakeTurns == \A u \in Sessions : Register(u) => u \in fresh

\* No version has been overwritten.
Intact == overwritten = {}

\* Where sessions take turns nothing is overwritten, and the registry is that
\* log for good.
THEOREM RegistryTurns == Spec /\ [][TakeTurns]_vars => []Intact /\ History!Spec
<1>1. Init => Intact
  BY DEF Init, Intact
<1>2. TypeOK /\ Held /\ Chained /\ Intact /\ [Next]_vars /\ [TakeTurns]_vars => Intact'
  <2> SUFFICES ASSUME TypeOK, Held, Chained, Intact, [Next]_vars, [TakeTurns]_vars
               PROVE  overwritten' = {}
    BY DEF Intact
  <2> USE DEF observed, Intact
  <2>1. ASSUME NEW u \in Sessions, Register(u) PROVE overwritten' = {}
    <3>1. CASE UNCHANGED vars
      BY <3>1 DEF vars
    <3>2. CASE TakeTurns
      <4>1. version[u] \in Nat /\ Latest(version[u])
        BY <2>1, <3>2, RegisterFollows DEF TakeTurns, Chained, Front
      <4>2. version[u] + 1 \notin DOMAIN files
        BY <4>1 DEF Latest
      <4> QED
        BY <2>1, <4>2 DEF Register, NextVersion
    <3> QED
      BY <3>1, <3>2
  <2>2. CASE UNCHANGED overwritten
    BY <2>2
  <2> QED
    BY <2>1, <2>2 DEF Next, List, NoVersions, Load, Raise, SkipRegister, ReadSource,
       ProcessFailFast, vars
<1>3. TypeOK /\ Held /\ Chained /\ Intact' /\ [Next]_vars => [History!Next]_(History!vars)
  BY StepOfHistory DEF Intact
<1>4. Spec /\ [][TakeTurns]_vars => []Intact
  BY <1>1, <1>2, RegistryHeld, RegistryChained, PTL DEF Spec
<1>5. Spec /\ []Intact => History!Spec
  BY <1>3, HistoryStarts, RegistryHeld, RegistryChained, PTL DEF Spec, History!Spec
<1> QED
  BY <1>4, <1>5, PTL
=============================================================================
