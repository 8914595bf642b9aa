----------------------------- MODULE RegStore -----------------------------
(***************************************************************************)
(* The registration record in flash: eeprom_manage.c.  NVM3 writes one key *)
(* at a time, so power may fail between any two of them; what the device   *)
(* takes itself for after that is decided by get_eeprom_device_reg_info()  *)
(* at the next start.                                                      *)
(*                                                                         *)
(* NVM3_KEY_UNIQUE_ID and NVM3_KEY_HOST_NAME only repeat what the MAC      *)
(* address says, and NVM3_KEY_REG_MODE and NVM3_KEY_SW_STATE are not part  *)
(* of the record: the four are left out.                                   *)
(***************************************************************************)
EXTENDS Naturals, Sequences

CONSTANTS
  Owner,      \* users who may register the device, each with one home
  Nothing,    \* an empty string, a key that is not there
  Blanks,     \* sets of fields a request may leave empty
  MaxCrashes  \* bound: power failures

Field    == {"ssid", "password", "userid", "location"}
Required == {"ssid", "password", "userid"}

ASSUME OwnerAssumption == Nothing \notin Owner
ASSUME BlanksAssumption == Blanks \subseteq SUBSET Field
ASSUME CrashesAssumption == MaxCrashes \in Nat

\* The keys in the order they are written and erased.
SaveOrder  == <<"status", "ssid", "password", "userid", "location">>

\* Mutant of EraseOrder: the location before the status.
EraseOrder_LocationFirst ==
  <<"location", "status", "ssid", "password", "userid", "secure">>

EraseOrder == <<"status", "ssid", "password", "userid", "location", "secure">>

VARIABLES
  statusKey,  \* NVM3_KEY_REG_STATUS holds REGISTRATION_DONE
  secureKey,  \* NVM3_KEY_SECURE
  keys,       \* the keys of the four fields
  done,       \* casa_ctx.reg_status = REGISTRATION_DONE
  secure,     \* casa_ctx.secure_device
  fields,     \* the four fields of casa_ctx
  pc,         \* off, running, saving or erasing
  todo,       \* keys still to write or to erase
  crashes,    \* power failures
  record,     \* history: the latest record the cloud has accepted
  residue,    \* history: flash held a field of another user at that time
  cut         \* history: the save of that record was cut short

flash == <<statusKey, secureKey, keys>>
ram == <<done, secure, fields>>
history == <<record, residue, cut>>
vars == <<flash, ram, pc, todo, crashes, history>>

NoFields == [f \in Field |-> Nothing]
Complete(fs) == \A f \in Required : fs[f] # Nothing

\* A device as it leaves the factory.
Init ==
  /\ statusKey = FALSE /\ secureKey = FALSE /\ keys = NoFields
  /\ done = FALSE /\ secure = FALSE /\ fields = NoFields
  /\ pc = "off" /\ todo = <<>>
  /\ crashes = 0
  /\ record = NoFields /\ residue = FALSE /\ cut = FALSE

ZeroContext == done' = FALSE /\ secure' = FALSE /\ fields' = NoFields

-----------------------------------------------------------------------------

\* Mutant of PowerUp: the status is taken as it is.
PowerUp_TrustsStatus ==
  /\ pc = "off"
  /\ fields' = keys /\ secure' = secureKey /\ done' = statusKey
  /\ pc' = "running"
  /\ UNCHANGED <<flash, todo, crashes, history>>

\* nvm3_eeprom_init(): a status without the required fields is taken back.
PowerUp ==
  /\ pc = "off"
  /\ fields' = keys
  /\ secure' = secureKey
  /\ done' = (statusKey /\ Complete(keys))
  /\ statusKey' = done'
  /\ pc' = "running"
  /\ UNCHANGED <<secureKey, keys, todo, crashes, history>>

\* Mutant of Register: an empty field leaves what casa_ctx held before.
Register_KeepsOldFields(o, blank) ==
  /\ pc = "running" /\ ~done
  /\ fields' = [f \in Field |-> IF f \in blank THEN fields[f] ELSE o]
  /\ done' = Complete(fields')
  /\ pc' = "saving" /\ todo' = SaveOrder
  /\ record' = [f \in Field |-> IF f \in blank THEN Nothing ELSE o]
  /\ cut' = FALSE
  /\ residue' = \E f \in Required : keys[f] \notin {Nothing, o}
  /\ UNCHANGED <<flash, secure, crashes>>

\* REGISTRATION_PROCESS: the cloud has accepted the request of user o, and
\* set_eeprom_device_reg_info() begins; it declines a record that is not
\* complete, but writes it nevertheless.
Register(o, blank) ==
  /\ pc = "running" /\ ~done
  /\ fields' = [f \in Field |-> IF f \in blank THEN Nothing ELSE o]
  /\ done' = Complete(fields')
  /\ pc' = "saving" /\ todo' = SaveOrder
  /\ record' = [f \in Field |-> IF f \in blank THEN Nothing ELSE o]
  /\ cut' = FALSE
  /\ residue' = \E f \in Required : keys[f] \notin {Nothing, o}
  /\ UNCHANGED <<flash, secure, crashes>>

SaveKey ==
  /\ pc = "saving" /\ todo # <<>>
  /\ LET k == Head(todo)
     IN  /\ statusKey' = IF k = "status" THEN done ELSE statusKey
         /\ keys' = IF k \in Field THEN [keys EXCEPT ![k] = fields[k]]
                    ELSE keys
  /\ todo' = Tail(todo)
  /\ UNCHANGED <<secureKey, ram, pc, crashes, history>>

\* DE_REGISTRATION_FINAL: reg_status goes first, then
\* clear_dev_reg_preferences().
Deregister ==
  /\ pc = "running" /\ done
  /\ done' = FALSE
  /\ pc' = "erasing" /\ todo' = EraseOrder
  /\ UNCHANGED <<flash, secure, fields, crashes, history>>

EraseKey ==
  /\ pc = "erasing" /\ todo # <<>>
  /\ LET k == Head(todo)
     IN  /\ statusKey' = (statusKey /\ k # "status")
         /\ secureKey' = (secureKey /\ k # "secure")
         /\ keys' = IF k \in Field THEN [keys EXCEPT ![k] = Nothing]
                    ELSE keys
  /\ todo' = Tail(todo)
  /\ UNCHANGED <<ram, pc, crashes, history>>

Saved ==
  /\ pc = "saving" /\ todo = <<>>
  /\ pc' = "running"
  /\ UNCHANGED <<flash, ram, todo, crashes, history>>

\* casa_ctx is zeroed after the keys are gone.
Erased ==
  /\ pc = "erasing" /\ todo = <<>>
  /\ ZeroContext
  /\ pc' = "running"
  /\ UNCHANGED <<flash, todo, crashes, history>>

\* SECURE_DEVICE, handled by the mqtt thread while the device is registered
\* and until casa_app has closed the session, which it does after the erasure.
SetSecure(s) ==
  /\ (pc = "running" /\ done) \/ pc = "erasing"
  /\ secureKey' = s /\ secure' = s
  /\ UNCHANGED <<statusKey, keys, done, fields, pc, todo, crashes, history>>

\* A long press on a device that is not registered: reg_dereg_button().
Reset ==
  /\ pc = "running" /\ ~done
  /\ ZeroContext
  /\ UNCHANGED <<flash, pc, todo, crashes, history>>

PowerFailure ==
  /\ pc # "off" /\ crashes < MaxCrashes
  /\ crashes' = crashes + 1
  /\ ZeroContext
  /\ cut' = (cut \/ pc = "saving")
  /\ pc' = "off" /\ todo' = <<>>
  /\ UNCHANGED <<flash, record, residue>>

Next ==
  \/ PowerUp
  \/ \E o \in Owner, blank \in Blanks : Register(o, blank)
  \/ SaveKey \/ Saved
  \/ Deregister \/ EraseKey \/ Erased
  \/ \E s \in BOOLEAN : SetSecure(s)
  \/ Reset \/ PowerFailure

Spec == Init /\ [][Next]_vars

-----------------------------------------------------------------------------

Records == [Field -> Owner \cup {Nothing}]

\* Every variable has its type.
TypeOK ==
  /\ statusKey \in BOOLEAN /\ secureKey \in BOOLEAN /\ keys \in Records
  /\ done \in BOOLEAN /\ secure \in BOOLEAN /\ fields \in Records
  /\ pc \in {"off", "running", "saving", "erasing"}
  /\ todo \in Seq(Field \cup {"status", "secure"})
  /\ crashes \in 0 .. MaxCrashes
  /\ record \in Records
  /\ residue \in BOOLEAN /\ cut \in BOOLEAN

Registered == pc = "running" /\ done

\* The registration state is strict: a device that takes itself for registered
\* has the fields it needs, wherever a save or an erasure was cut short
\* (eeprom_manage.c:206).
StrictStatus == Registered => Complete(fields)

\* An erasure that is cut short never leaves a registered device with a part of
\* its record: only a save that is cut short can.
ErasureLeavesNoPart ==
  Registered /\ ~cut => keys = record /\ fields = record

\* A registered device belongs to the user of the latest registration, unless
\* two things went wrong: flash still held fields of another user, which a save
\* that is declined or an erasure that is cut short leaves behind, and that
\* registration was cut short itself.
OwnerIsCurrent ==
  Registered /\ ~(residue /\ cut) =>
    \A f \in Required : fields[f] = record[f]
=============================================================================
