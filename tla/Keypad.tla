------------------------------- MODULE Keypad -------------------------------
(***************************************************************************)
(* The keypad (HAL/HKPD/KYD.c) and the applications that poll it           *)
(* (APP/APP1.c, APP/APP2.c, APP/Sender.c).  A scan and a poll are          *)
(* runnables of one scheduler: each is a step.                             *)
(***************************************************************************)
EXTENDS Naturals

CONSTANTS Columns, Rows,   \* KPD_NUMBER_OF_COLUMNS, KPD_NUMBER_OF_ROWS
          KPD_ARRAY,       \* the name of the key in each column and row
          Readers          \* the applications that poll the keypad

NOT_SW_PRESSED == "none"
Keys == (0 .. Columns - 1) \X (0 .. Rows - 1)

KeypadAssumption ==
    /\ Columns \in Nat \ {0} /\ Rows \in Nat \ {0}
    /\ KPD_ARRAY \in [Keys -> STRING \ {NOT_SW_PRESSED}]
    /\ Readers \subseteq {"APP1", "APP2", "Sender"}

VARIABLES contacts,       \* the keys that are down
          Local_State,    \* what the scan remembers of each key
          KPDPressedKey,  \* the name of the key found by the last scan
          NewValueflag,   \* it has not been read yet
          output,         \* what the applications made of the last key
          readings,       \* history: the last two levels read of each key
          changed         \* history: the key found has changed since one was taken

vars == <<contacts, Local_State, KPDPressedKey, NewValueflag, output, readings, changed>>

Init == /\ contacts = {}
        /\ Local_State = [k \in Keys |-> "INIT"]
        /\ KPDPressedKey = NOT_SW_PRESSED
        /\ NewValueflag = FALSE
        /\ output = <<>>
        /\ readings = [k \in Keys |-> <<FALSE, FALSE>>]
        /\ changed = TRUE

(* A key goes down or comes up, at any time between two runnables. *)
Press == \E k \in Keys :
            /\ contacts' = (contacts \ {k}) \cup ({k} \ contacts)
            /\ UNCHANGED <<Local_State, KPDPressedKey, NewValueflag, output, readings, changed>>

----------------------------------------------------------------------------
(* KPD_Runnable *)

Position(k) == k[1] * Rows + k[2]

(* A key is found when it is low and was low before; there the scan ends. *)
Found_AtOnce(k) == k \in contacts
Found(k) == k \in contacts /\ Local_State[k] = "PRESSED"

Hits == {k \in Keys : Found(k)}
IsFirst(k) == k \in Hits /\ \A h \in Hits : Position(k) <= Position(h)
Scanned == {k \in Keys : \A h \in Hits : Position(k) <= Position(h)}

KeyFound == IF Hits = {} THEN NOT_SW_PRESSED ELSE KPD_ARRAY[CHOOSE k \in Keys : IsFirst(k)]

StateAfter(k) == IF k \in contacts THEN "PRESSED" ELSE "NOT_PRESSED"

IsNew_WhileDown == KeyFound # NOT_SW_PRESSED
IsNew == KeyFound # KPDPressedKey

KPD_Runnable ==
    /\ Local_State' = [k \in Keys |-> IF k \in Scanned THEN StateAfter(k) ELSE Local_State[k]]
    /\ readings' = [k \in Keys |-> IF k \in Scanned THEN <<readings[k][2], k \in contacts>> ELSE readings[k]]
    /\ KPDPressedKey' = KeyFound
    /\ NewValueflag' = (NewValueflag \/ IsNew)
    /\ changed' = (changed \/ KeyFound # KPDPressedKey)
    /\ UNCHANGED <<contacts, output>>

----------------------------------------------------------------------------
(* KPD_GetPressedKey and its callers; a poll that finds no key is no step. *)

Available == NewValueflag /\ KPDPressedKey # NOT_SW_PRESSED

ReadFlag_Kept == NewValueflag
ReadFlag == FALSE

(* APP1 writes keys with a text of their own on the LCD, and drops others. *)
TextOf(key) == IF key \in {"1", "2", "3", "4", "5", "6", "7", "8", "9", "A", "B", "C", "F", "G", "H"}
               THEN <<key>>
               ELSE IF key = "D" THEN <<"C">> ELSE IF key = "E" THEN <<"8">> ELSE <<>>

Forwarded(reader, key) == IF reader = "APP1" THEN TextOf(key) ELSE <<key>>

Take(reader) == /\ Available
                /\ NewValueflag' = ReadFlag
                /\ output' = Forwarded(reader, KPDPressedKey)
                /\ changed' = FALSE
                /\ UNCHANGED <<contacts, Local_State, KPDPressedKey, readings>>

Next == Press \/ KPD_Runnable \/ \E r \in Readers : Take(r)

----------------------------------------------------------------------------
(* Correctness *)

Names == {KPD_ARRAY[k] : k \in Keys} \cup {NOT_SW_PRESSED}

TypeOK == /\ contacts \subseteq Keys
          /\ Local_State \in [Keys -> {"INIT", "PRESSED", "NOT_PRESSED"}]
          /\ KPDPressedKey \in Names
          /\ NewValueflag \in BOOLEAN
          /\ readings \in [Keys -> BOOLEAN \X BOOLEAN]
          /\ changed \in BOOLEAN

(* A key is reported only if it was down in its last two readings, however
   the scan was cut short by other keys in between (KYD.c:66). *)
ReportedAfterTwoReadings ==
    KPDPressedKey # NOT_SW_PRESSED =>
        \E k \in Keys : KPD_ARRAY[k] = KPDPressedKey /\ readings[k] = <<TRUE, TRUE>>

(* A key that stays down is taken once: between two keys that the readers
   get, whichever readers they are, the scan has found something else. *)
EachTakenOnce == [][(\E r \in Readers : Take(r)) => changed]_vars

(* A key that stays down alone is found, and a reader takes it. *)
HeldKeyTaken == \A k \in Keys :
    <>[](contacts = {k}) => <>[](KPDPressedKey = KPD_ARRAY[k] /\ ~NewValueflag)
=============================================================================
