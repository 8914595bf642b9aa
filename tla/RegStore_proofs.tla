-------------------------- MODULE RegStore_proofs --------------------------
(***************************************************************************)
(* Proofs about RegStore, for every set of owners, every set of blanks and *)
(* every number of power failures.                                         *)
(***************************************************************************)
EXTENDS RegStore, TLAPS

\* The fields never change while the device takes itself for registered, so the
\* record it has found complete stays complete.
Strict == done => Complete(fields)

IInv == TypeOK /\ Strict

\* What is left of a list of keys to handle is again such a list.
LEMMA TailOfKeys ==
  ASSUME NEW K, NEW s \in Seq(K), s # <<>>
  PROVE  Head(s) \in K /\ Tail(s) \in Seq(K)
  OBVIOUS

\* The initial state of the store satisfies the inductive invariant.
LEMMA InitIInv == Init => IInv
<1> SUFFICES ASSUME Init PROVE IInv
  OBVIOUS
<1>1. keys \in Records /\ fields \in Records
  BY DEF Init, NoFields, Records
<1>2. todo \in Seq(Field \cup {"status", "secure"}) /\ crashes \in 0 .. MaxCrashes
  BY CrashesAssumption DEF Init
<1>3. Strict
  BY DEF Init, Strict
<1> QED
  BY <1>1, <1>2, <1>3 DEF Init, IInv, TypeOK

\* Every step keeps every variable within its type.
LEMMA NextType == TypeOK /\ [Next]_vars => TypeOK'
<1> SUFFICES ASSUME TypeOK, [Next]_vars PROVE TypeOK'
  OBVIOUS
<1> USE DEF TypeOK, history
<1>1. CASE PowerUp
  BY <1>1 DEF PowerUp, Complete
<1>2. ASSUME NEW o \in Owner, NEW blank \in Blanks, Register(o, blank)
      PROVE  TypeOK'
  <2>1. fields' \in Records
    BY <1>2 DEF Register, Records
  <2>2. todo' \in Seq(Field \cup {"status", "secure"})
    BY <1>2 DEF Register, SaveOrder, Field
  <2>3. done' \in BOOLEAN /\ record' \in Records /\ cut' \in BOOLEAN
    BY <1>2 DEF Register, Complete, Records
  <2>4. residue' \in BOOLEAN
    BY <1>2 DEF Register
  <2> QED
    BY <1>2, <2>1, <2>2, <2>3, <2>4 DEF Register, flash
<1>3. CASE SaveKey
  <2>1. /\ Head(todo) \in Field \cup {"status", "secure"}
        /\ todo' \in Seq(Field \cup {"status", "secure"})
    BY <1>3, TailOfKeys DEF SaveKey
  <2>2. keys' \in Records
    BY <1>3, <2>1 DEF SaveKey, Records
  <2>3. statusKey' \in BOOLEAN
    BY <1>3 DEF SaveKey
  <2> QED
    BY <1>3, <2>1, <2>2, <2>3 DEF SaveKey, ram
<1>4. CASE Saved
  BY <1>4 DEF Saved, flash, ram
<1>5. CASE Deregister
  <2>1. todo' \in Seq(Field \cup {"status", "secure"})
    BY <1>5 DEF Deregister, EraseOrder, Field
  <2> QED
    BY <1>5, <2>1 DEF Deregister, flash
<1>6. CASE EraseKey
  <2>1. /\ Head(todo) \in Field \cup {"status", "secure"}
        /\ todo' \in Seq(Field \cup {"status", "secure"})
    BY <1>6, TailOfKeys DEF EraseKey
  <2>2. keys' \in Records
    BY <1>6, <2>1 DEF EraseKey, Records
  <2>3. statusKey' \in BOOLEAN /\ secureKey' \in BOOLEAN
    BY <1>6 DEF EraseKey
  <2> QED
    BY <1>6, <2>1, <2>2, <2>3 DEF EraseKey, ram
<1>7. CASE Erased
  BY <1>7 DEF Erased, ZeroContext, NoFields, Records, flash
<1>8. ASSUME NEW s \in BOOLEAN, SetSecure(s)
      PROVE  TypeOK'
  BY <1>8 DEF SetSecure
<1>9. CASE Reset
  BY <1>9 DEF Reset, ZeroContext, NoFields, Records, flash
<1>10. CASE PowerFailure
  <2>1. crashes' \in 0 .. MaxCrashes
    BY <1>10, CrashesAssumption DEF PowerFailure
  <2>2. done' \in BOOLEAN /\ secure' \in BOOLEAN /\ cut' \in BOOLEAN
    BY <1>10 DEF PowerFailure, ZeroContext
  <2>3. fields' \in Records
    BY <1>10 DEF PowerFailure, ZeroContext, NoFields, Records
  <2>4. pc' = "off" /\ todo' \in Seq(Field \cup {"status", "secure"})
    BY <1>10 DEF PowerFailure
  <2> QED
    BY <1>10, <2>1, <2>2, <2>3, <2>4 DEF PowerFailure, flash
<1>11. CASE UNCHANGED vars
  BY <1>11 DEF vars, flash, ram
<1> QED
  BY <1>1, <1>2, <1>3, <1>4, <1>5, <1>6, <1>7, <1>8, <1>9, <1>10, <1>11
  DEF Next

\* Every step keeps the record of a registered device complete.
LEMMA NextStrict == Strict /\ [Next]_vars => Strict'
<1> SUFFICES ASSUME Strict, [Next]_vars PROVE Strict'
  OBVIOUS
<1> USE DEF Strict, Complete
<1>1. CASE PowerUp
  BY <1>1 DEF PowerUp
<1>2. ASSUME NEW o \in Owner, NEW blank \in Blanks, Register(o, blank)
      PROVE  Strict'
  BY <1>2 DEF Register
<1>3. CASE SaveKey
  BY <1>3 DEF SaveKey, ram
<1>4. CASE Saved
  BY <1>4 DEF Saved, ram
<1>5. CASE Deregister
  BY <1>5 DEF Deregister
<1>6. CASE EraseKey
  BY <1>6 DEF EraseKey, ram
<1>7. CASE Erased
  BY <1>7 DEF Erased, ZeroContext
<1>8. ASSUME NEW s \in BOOLEAN, SetSecure(s)
      PROVE  Strict'
  BY <1>8 DEF SetSecure
<1>9. CASE Reset
  BY <1>9 DEF Reset, ZeroContext
<1>10. CASE PowerFailure
  BY <1>10 DEF PowerFailure, ZeroContext
<1>11. CASE UNCHANGED vars
  BY <1>11 DEF vars, ram
<1> QED
  BY <1>1, <1>2, <1>3, <1>4, <1>5, <1>6, <1>7, <1>8, <1>9, <1>10, <1>11
  DEF Next

\* The inductive invariant holds in every reachable state.
LEMMA AlwaysIInv == Spec => []IInv
<1>1. IInv /\ [Next]_vars => IInv'
  BY NextType, NextStrict DEF IInv
<1> QED
  BY <1>1, InitIInv, PTL DEF Spec

\* Every variable has its type in every reachable state.
THEOREM TypeCorrect == Spec => []TypeOK
<1>1. IInv => TypeOK
  BY DEF IInv
<1> QED
  BY <1>1, AlwaysIInv, PTL

\* A device that takes itself for registered has the fields it needs, whatever
\* power failures cut short (eeprom_manage.c:206).
THEOREM StatusIsStrict == Spec => []StrictStatus
<1>1. IInv => StrictStatus
  BY DEF IInv, Strict, StrictStatus, Registered
<1> QED
  BY <1>1, AlwaysIInv, PTL

-----------------------------------------------------------------------------
(* Whose record it is.                                                     *)

\* What is left to write or to erase.
SaveRest == {<<"status", "ssid", "password", "userid", "location">>,
             <<"ssid", "password", "userid", "location">>,
             <<"password", "userid", "location">>, <<"userid", "location">>,
             <<"location">>, <<>>}
EraseRest == {<<"status", "ssid", "password", "userid", "location", "secure">>,
              <<"ssid", "password", "userid", "location", "secure">>,
              <<"password", "userid", "location", "secure">>,
              <<"userid", "location", "secure">>, <<"location", "secure">>,
              <<"secure">>, <<>>}
Written(f) == \A i \in 1 .. Len(todo) : todo[i] # f

\* A save writes the latest record; the status goes first, in and out.
Order ==
  /\ pc = "saving" =>
       /\ todo \in SaveRest /\ ~cut /\ fields = record /\ done = Complete(record)
       /\ \A f \in Field : Written(f) => keys[f] = record[f]
       /\ todo # SaveOrder => statusKey = done
  /\ pc = "erasing" => todo \in EraseRest /\ (todo # EraseOrder => ~statusKey) /\ ~done
  /\ pc = "running" /\ ~done => ~statusKey

\* A status in flash is that of a complete record, and of the latest one unless its
\* save was cut short.
Latest ==
  /\ statusKey => Complete(record)
  /\ pc # "saving" /\ ~cut /\ statusKey => keys = record
  /\ pc = "running" /\ done /\ ~cut => keys = record /\ fields = record

\* Without residue, all that flash holds is of one user.
OfOne(o) == \A f \in Required : {record[f], keys[f]} \subseteq {Nothing, o}
OneUser ==
  /\ ~residue => \E o \in Owner \cup {Nothing} : OfOne(o)
  /\ pc = "running" /\ done /\ ~residue => \A f \in Required : fields[f] = record[f]

OwnInv == Order /\ Latest /\ OneUser

\* The initial state satisfies it.
LEMMA InitOwnInv == Init => OwnInv
<1> SUFFICES ASSUME Init PROVE OwnInv
  OBVIOUS
<1>1. Order /\ Latest
  BY DEF Init, Order, Latest
<1>2. OfOne(Nothing)
  BY DEF Init, OfOne, NoFields, Required, Field
<1> QED
  BY <1>1, <1>2 DEF Init, OwnInv, OneUser

\* The tails of the two lists.
LEMMA Tails ==
  /\ Tail(<<"status", "ssid", "password", "userid", "location">>)
       = <<"ssid", "password", "userid", "location">>
  /\ Tail(<<"ssid", "password", "userid", "location">>) = <<"password", "userid", "location">>
  /\ Tail(<<"password", "userid", "location">>) = <<"userid", "location">>
  /\ Tail(<<"userid", "location">>) = <<"location">>
  /\ Tail(<<"location">>) = <<>>
<1>1. Tail(<<"status", "ssid", "password", "userid", "location">>)
        = <<"ssid", "password", "userid", "location">>
  OBVIOUS
<1>2. Tail(<<"ssid", "password", "userid", "location">>) = <<"password", "userid", "location">>
  OBVIOUS
<1>3. Tail(<<"password", "userid", "location">>) = <<"userid", "location">>
  OBVIOUS
<1>4. Tail(<<"userid", "location">>) = <<"location">>
  OBVIOUS
<1>5. Tail(<<"location">>) = <<>>
  OBVIOUS
<1> QED
  BY <1>1, <1>2, <1>3, <1>4, <1>5

LEMMA EraseTails ==
  /\ Tail(<<"status", "ssid", "password", "userid", "location", "secure">>)
       = <<"ssid", "password", "userid", "location", "secure">>
  /\ Tail(<<"ssid", "password", "userid", "location", "secure">>)
       = <<"password", "userid", "location", "secure">>
  /\ Tail(<<"password", "userid", "location", "secure">>) = <<"userid", "location", "secure">>
  /\ Tail(<<"userid", "location", "secure">>) = <<"location", "secure">>
  /\ Tail(<<"location", "secure">>) = <<"secure">>
  /\ Tail(<<"secure">>) = <<>>
<1>1. Tail(<<"status", "ssid", "password", "userid", "location", "secure">>)
        = <<"ssid", "password", "userid", "location", "secure">>
  OBVIOUS
<1>2. Tail(<<"ssid", "password", "userid", "location", "secure">>)
        = <<"password", "userid", "location", "secure">>
  OBVIOUS
<1>3. Tail(<<"password", "userid", "location", "secure">>) = <<"userid", "location", "secure">>
  OBVIOUS
<1>4. Tail(<<"userid", "location", "secure">>) = <<"location", "secure">>
  OBVIOUS
<1>5. Tail(<<"location", "secure">>) = <<"secure">> /\ Tail(<<"secure">>) = <<>>
  OBVIOUS
<1> QED
  BY <1>1, <1>2, <1>3, <1>4, <1>5

\* Writing one key.
LEMMA SaveKeyOwn ==
  ASSUME TypeOK, OwnInv, SaveKey
  PROVE  OwnInv'
<1>1. /\ pc = "saving" /\ todo # <<>> /\ todo' = Tail(todo)
      /\ UNCHANGED <<done, fields, pc, record, residue, cut>>
      /\ statusKey' = IF Head(todo) = "status" THEN done ELSE statusKey
      /\ keys' = IF Head(todo) \in Field THEN [keys EXCEPT ![Head(todo)] = fields[Head(todo)]]
                 ELSE keys
  BY DEF SaveKey, ram, history
<1>2. /\ todo \in SaveRest /\ ~cut /\ fields = record /\ done = Complete(record)
      /\ keys \in [Field -> Owner \cup {Nothing}]
  BY <1>1 DEF OwnInv, Order, TypeOK, Records
<1>3. todo' \in SaveRest /\ todo' # SaveOrder
  <2>1. todo' \in SaveRest
    BY <1>1, <1>2, Tails DEF SaveRest
  <2>2. Len(SaveOrder) = 5
    BY DEF SaveOrder
  <2>3. Len(todo) <= 5
    <3>1. Len(<<"status", "ssid", "password", "userid", "location">>) = 5
      OBVIOUS
    <3>2. Len(<<"ssid", "password", "userid", "location">>) = 4
      OBVIOUS
    <3>3. /\ Len(<<"password", "userid", "location">>) = 3
          /\ Len(<<"userid", "location">>) = 2 /\ Len(<<"location">>) = 1 /\ Len(<<>>) = 0
      OBVIOUS
    <3>4. Len(todo) \in {5, 4, 3, 2, 1, 0}
      BY <1>2, <3>1, <3>2, <3>3, Zenon DEF SaveRest
    <3>5. \A n : n \in {5, 4, 3, 2, 1, 0} => n <= 5
      OBVIOUS
    <3> QED
      BY <3>4, <3>5, Zenon
  <2>4. Len(todo') = Len(todo) - 1
    BY <1>1 DEF TypeOK
  <2>5. Len(todo) \in Nat
    BY DEF TypeOK
  <2>6. \A n \in Nat : n <= 5 => n - 1 # 5
    OBVIOUS
  <2>7. Len(todo') # Len(SaveOrder)
    BY <2>2, <2>3, <2>4, <2>5, <2>6, Zenon
  <2> QED
    BY <2>1, <2>7, Zenon
<1>4. statusKey' = done
  BY <1>1, <1>2 DEF OwnInv, Order, SaveRest, SaveOrder
<1>5. ASSUME NEW f \in Field, Written(f)' PROVE keys'[f] = record[f]
  <2>1. Written(f) \/ f = Head(todo)
    <3> SUFFICES ASSUME NEW i \in 1 .. Len(todo), todo[i] = f, f # Head(todo) PROVE FALSE
      BY DEF Written
    <3>1. i # 1 /\ Len(todo') = Len(todo) - 1 /\ Len(todo) \in Nat
      BY <1>1 DEF TypeOK
    <3>2. i - 1 \in 1 .. Len(todo') /\ todo'[i - 1] = f
      BY <1>1, <3>1 DEF TypeOK
    <3> QED
      BY <1>5, <3>2 DEF Written
  <2>2. Written(f) => keys[f] = record[f]
    BY <1>1 DEF OwnInv, Order
  <2> QED
    BY <1>1, <1>2, <2>1, <2>2
<1>6. Order'
  BY <1>1, <1>2, <1>3, <1>4, <1>5 DEF Order, Complete
<1>7. Latest'
  BY <1>1, <1>2, <1>4 DEF Latest, Complete
<1>8. OneUser'
  <2>1. ASSUME ~residue PROVE \E o \in Owner \cup {Nothing} : OfOne(o)'
    <3>1. PICK o \in Owner \cup {Nothing} : OfOne(o)
      BY <2>1 DEF OwnInv, OneUser
    <3>2. ASSUME NEW f \in Required PROVE {record'[f], keys'[f]} \subseteq {Nothing, o}
      <4>1. keys'[f] = keys[f] \/ keys'[f] = record[f]
        BY <1>1, <1>2 DEF Required, Field
      <4> QED
        BY <1>1, <3>1, <4>1 DEF OfOne
    <3> QED
      BY <3>1, <3>2 DEF OfOne
  <2> QED
    BY <1>1, <2>1 DEF OneUser
<1> QED
  BY <1>6, <1>7, <1>8 DEF OwnInv

\* Erasing one key.
LEMMA EraseKeyOwn ==
  ASSUME TypeOK, OwnInv, EraseKey
  PROVE  OwnInv'
<1>1. /\ pc = "erasing" /\ todo # <<>> /\ todo' = Tail(todo)
      /\ UNCHANGED <<done, fields, pc, record, residue, cut>>
      /\ statusKey' = (statusKey /\ Head(todo) # "status")
      /\ keys' = IF Head(todo) \in Field THEN [keys EXCEPT ![Head(todo)] = Nothing]
                 ELSE keys
  BY DEF EraseKey, ram, history
<1>2. /\ todo \in EraseRest /\ ~done /\ (todo # EraseOrder => ~statusKey)
      /\ keys \in [Field -> Owner \cup {Nothing}]
  BY <1>1 DEF OwnInv, Order, TypeOK, Records
<1>3. todo' \in EraseRest /\ ~statusKey'
  <2>1. todo' \in EraseRest
    BY <1>1, <1>2, EraseTails DEF EraseRest
  <2>2. Head(EraseOrder) = "status"
    BY DEF EraseOrder
  <2> QED
    BY <1>1, <1>2, <2>1, <2>2
<1>4. Order' /\ Latest'
  BY <1>1, <1>2, <1>3 DEF Order, Latest
<1>5. OneUser'
  <2>1. ASSUME ~residue PROVE \E o \in Owner \cup {Nothing} : OfOne(o)'
    <3>1. PICK o \in Owner \cup {Nothing} : OfOne(o)
      BY <2>1 DEF OwnInv, OneUser
    <3>2. ASSUME NEW f \in Required PROVE {record'[f], keys'[f]} \subseteq {Nothing, o}
      <4>1. keys'[f] = keys[f] \/ keys'[f] = Nothing
        BY <1>1, <1>2 DEF Required, Field
      <4> QED
        BY <1>1, <3>1, <4>1 DEF OfOne
    <3> QED
      BY <3>1, <3>2 DEF OfOne
  <2> QED
    BY <1>1, <2>1 DEF OneUser
<1> QED
  BY <1>4, <1>5 DEF OwnInv

\* A registration begins: residue says whether flash holds another user's fields.
LEMMA RegisterOwn ==
  ASSUME TypeOK, OwnInv, NEW o \in Owner, NEW blank \in Blanks, Register(o, blank)
  PROVE  OwnInv'
<1>1. /\ pc = "running" /\ ~done /\ pc' = "saving" /\ todo' = SaveOrder /\ ~cut'
      /\ fields' = [f \in Field |-> IF f \in blank THEN Nothing ELSE o]
      /\ record' = fields' /\ done' = Complete(fields')
      /\ residue' = \E f \in Required : keys[f] \notin {Nothing, o}
      /\ UNCHANGED <<statusKey, keys>>
  BY DEF Register, flash
<1>2. ~statusKey'
  BY <1>1 DEF OwnInv, Order
<1>3. Order'
  <2>1. \A f \in Field : ~Written(f)'
    <3>1. /\ SaveOrder[2] = "ssid" /\ SaveOrder[3] = "password" /\ SaveOrder[4] = "userid"
          /\ SaveOrder[5] = "location" /\ Len(SaveOrder) = 5
      BY DEF SaveOrder
    <3>2. {2, 3, 4, 5} \subseteq 1 .. Len(SaveOrder)
      BY <3>1
    <3> QED
      BY <1>1, <3>1, <3>2 DEF Written, Field
  <2>2. SaveOrder \in SaveRest
    BY DEF SaveRest, SaveOrder
  <2>3. done' = Complete(record)'
    BY <1>1 DEF Complete
  <2> QED
    BY <1>1, <2>1, <2>2, <2>3 DEF Order
<1>4. Latest'
  BY <1>1, <1>2 DEF Latest
<1>5. OneUser'
  <2>1. ASSUME ~residue' PROVE OfOne(o)'
    BY <1>1, <2>1 DEF OfOne, Required, Field
  <2> QED
    BY <1>1, <2>1 DEF OneUser
<1> QED
  BY <1>3, <1>4, <1>5 DEF OwnInv

\* A start takes the record for what flash says.
LEMMA PowerUpOwn ==
  ASSUME TypeOK, OwnInv, PowerUp
  PROVE  OwnInv'
<1>1. /\ pc = "off" /\ pc' = "running" /\ fields' = keys
      /\ done' = (statusKey /\ Complete(keys)) /\ statusKey' = done'
      /\ UNCHANGED <<keys, record, residue, cut>>
  BY DEF PowerUp, history
<1>2. Order'
  BY <1>1 DEF Order
<1>3. Latest'
  BY <1>1 DEF OwnInv, Latest, Complete
<1>4. OneUser'
  <2>1. ASSUME ~residue
        PROVE  /\ \E o \in Owner \cup {Nothing} : OfOne(o)'
               /\ done' => \A f \in Required : keys[f] = record[f]
    <3>1. PICK o \in Owner \cup {Nothing} : OfOne(o)
      BY <2>1 DEF OwnInv, OneUser
    <3>2. OfOne(o)'
      BY <1>1, <3>1 DEF OfOne
    <3>3. done' => Complete(keys) /\ Complete(record)
      BY <1>1 DEF OwnInv, Latest
    <3>4. done' => \A f \in Required : keys[f] = record[f]
      BY <3>1, <3>3 DEF OfOne, Complete
    <3> QED
      BY <3>2, <3>4
  <2> QED
    BY <1>1, <2>1 DEF OneUser
<1> QED
  BY <1>2, <1>3, <1>4 DEF OwnInv

\* The end of a save: all is written.
LEMMA SavedOwn ==
  ASSUME TypeOK, OwnInv, Saved
  PROVE  OwnInv'
<1>1. /\ pc = "saving" /\ todo = <<>> /\ pc' = "running"
      /\ UNCHANGED <<statusKey, keys, done, fields, record, residue, cut>>
  BY DEF Saved, flash, ram, history
<1>2. todo # SaveOrder
  BY <1>1 DEF SaveOrder
<1>3. keys = record
  <2>1. \A f \in Field : Written(f)
    BY <1>1 DEF Written
  <2>2. \A f \in Field : keys[f] = record[f]
    BY <1>1, <2>1 DEF OwnInv, Order
  <2> QED
    BY <2>2 DEF TypeOK, Records
<1>4. Order' /\ Latest'
  BY <1>1, <1>2, <1>3 DEF OwnInv, Order, Latest, Complete
<1>5. OneUser'
  BY <1>1 DEF OwnInv, Order, OneUser, OfOne
<1> QED
  BY <1>4, <1>5 DEF OwnInv

\* Every step keeps the record that of the latest registration.
LEMMA NextOwnInv == TypeOK /\ OwnInv /\ [Next]_vars => OwnInv'
<1> SUFFICES ASSUME TypeOK, OwnInv, [Next]_vars PROVE OwnInv'
  OBVIOUS
<1>1. CASE Deregister
  <2>1. /\ pc = "running" /\ done /\ ~done' /\ pc' = "erasing" /\ todo' = EraseOrder
        /\ UNCHANGED <<statusKey, keys, record, residue, cut>>
    BY <1>1 DEF Deregister, flash, history
  <2>2. EraseOrder \in EraseRest
    BY DEF EraseOrder, EraseRest
  <2> QED
    BY <2>1, <2>2 DEF OwnInv, Order, Latest, OneUser, OfOne, Complete
<1>2. CASE Erased
  <2>1. /\ pc = "erasing" /\ todo = <<>> /\ ~done' /\ pc' = "running"
        /\ UNCHANGED <<statusKey, keys, record, residue, cut>>
    BY <1>2 DEF Erased, ZeroContext, flash, history
  <2>2. ~statusKey
    BY <2>1 DEF OwnInv, Order, EraseOrder
  <2> QED
    BY <2>1, <2>2 DEF OwnInv, Order, Latest, OneUser, OfOne
<1>3. ASSUME NEW s \in BOOLEAN, SetSecure(s) PROVE OwnInv'
  <2>1. UNCHANGED <<statusKey, keys, done, fields, pc, todo, record, residue, cut>>
    BY <1>3 DEF SetSecure, history
  <2> QED
    BY <2>1 DEF OwnInv, Order, Written, Latest, OneUser, OfOne, Complete
<1>4. CASE Reset
  <2>1. /\ pc = "running" /\ ~done /\ ~done'
        /\ UNCHANGED <<statusKey, keys, pc, record, residue, cut>>
    BY <1>4 DEF Reset, ZeroContext, flash, history
  <2> QED
    BY <2>1 DEF OwnInv, Order, Latest, OneUser, OfOne, Complete
<1>5. CASE PowerFailure
  <2>1. /\ pc' = "off" /\ cut' = (cut \/ pc = "saving")
        /\ UNCHANGED <<statusKey, keys, record, residue>>
    BY <1>5 DEF PowerFailure, flash
  <2> QED
    BY <2>1 DEF OwnInv, Order, Latest, OneUser, OfOne, Complete
<1>6. CASE UNCHANGED vars
  BY <1>6 DEF vars, flash, ram, history, OwnInv, Order, Written, Latest, OneUser, OfOne,
              Complete
<1> QED
  BY <1>1, <1>2, <1>3, <1>4, <1>5, <1>6, SaveKeyOwn, EraseKeyOwn, RegisterOwn, PowerUpOwn,
     SavedOwn DEF Next

\* It holds in every reachable state.
LEMMA AlwaysOwnInv == Spec => []OwnInv
<1>1. IInv => TypeOK
  BY DEF IInv
<1> QED
  BY <1>1, AlwaysIInv, InitOwnInv, NextOwnInv, PTL DEF Spec

\* An erasure that is cut short anywhere leaves no part of a record that the device
\* would take for its own (eeprom_manage.c:318): the status goes first.
THEOREM ErasureIsClean == Spec => []ErasureLeavesNoPart
<1>1. OwnInv => ErasureLeavesNoPart
  BY DEF OwnInv, Latest, ErasureLeavesNoPart, Registered
<1> QED
  BY <1>1, AlwaysOwnInv, PTL

\* A registered device belongs to the user of the latest registration, for any users,
\* requests and power failures (eeprom_manage.c:228), unless flash held fields of
\* another user and the save was cut short.
THEOREM OwnerIsLatest == Spec => []OwnerIsCurrent
<1>1. OwnInv => OwnerIsCurrent
  BY DEF OwnInv, Latest, OneUser, OwnerIsCurrent, Registered
<1> QED
  BY <1>1, AlwaysOwnInv, PTL
=============================================================================
