--------------------------------- MODULE Efuse ---------------------------------
(***************************************************************************)
(* The eFuse driver (efuse.rs), one register access at a time, over cells  *)
(* that can be burnt and never unburnt, and the key-slot locks of km.rs,   *)
(* which two contexts may ask about through a shared reference.            *)
(***************************************************************************)
EXTENDS Integers, SequencesExt

CONSTANTS
    OtpBytes,   \* EFUSE_MAX_BYTES, even
    OtpBits,    \* the bits of a byte
    EfMaxRead,  \* the longest buffer that a read is given
    Keyslots,   \* key slots
    KmShared    \* TRUE: a handler may ask between main's two accesses

ASSUME EfuseAssumption ==
    /\ OtpBytes \in Nat /\ EfMaxRead \in Nat
    /\ Keyslots # {} /\ KmShared \in BOOLEAN

VARIABLES
    efTodo,     \* register accesses left of the call
    efCall,     \* the call: [op, at, count], "none" before the first
    efBuffer,   \* the bytes read so far
    efResult,   \* "none", "ok" or "out of range"
    efMode,     \* efuse_ctl_data: "reset", "read" or "write"
    efAvdd,     \* the programming voltage: "down", "rising", "up" or "falling"
    efOtp,      \* the burnt bits of each byte
    efAsked,    \* the bits write_byte was given for each byte
    kmTodo,     \* the slot each context is asking about
    kmSelected, \* kc_rd_slot_num
    kmLocked,   \* the locked slots
    kmAnswer    \* each context's last answer: <<slot, is locked, was locked>>

efVars == <<efTodo, efCall, efBuffer, efResult, efMode, efAvdd, efOtp, efAsked>>
kmVars == <<kmTodo, kmSelected, kmLocked, kmAnswer>>

Addresses == 0..(OtpBytes - 1)
word_index(a) == a \div 2

\* Variant: the byte lanes change places.
extract_byte_swapped(word, a) == word[1 - (a % 2)]

\* A word of the data window is two bytes, the even one low.
extract_byte(word, a) == word[a % 2]
pack_byte(value, a) == [lane \in 0..1 |-> IF lane = a % 2 THEN value ELSE {}]

EfTypeOK ==
    /\ efResult \in {"none", "ok", "out of range"}
    /\ Len(efBuffer) <= OtpBytes
    /\ efMode \in {"reset", "read", "write"}
    /\ efAvdd \in {"down", "rising", "up", "falling"}
    /\ efOtp \in [Addresses -> SUBSET OtpBits] /\ efAsked \in [Addresses -> SUBSET OtpBits]
    /\ kmSelected \in Keyslots /\ kmLocked \subseteq Keyslots

Contexts == {"main", "handler"}

EfInit ==
    /\ efTodo = <<>> /\ efCall = [op |-> "none"] /\ efBuffer = <<>> /\ efResult = "none"
    /\ efMode = "reset" /\ efAvdd = "down"
    /\ efOtp = [a \in Addresses |-> {}] /\ efAsked = [a \in Addresses |-> {}]

KmInit ==
    /\ kmTodo = [c \in Contexts |-> <<>>] /\ kmSelected = (CHOOSE s \in Keyslots : TRUE)
    /\ kmLocked = {} /\ kmAnswer = [c \in Contexts |-> <<>>]

-----------------------------------------------------------------------------
\* Variant: the read relies on the mode the last call left.
read_byte_unarmed(a) == << <<"load", a>> >>

\* The mode and the load are one critical section.
read_byte(a) == << <<"magic", "read">>, <<"load", a>> >>

\* Byte by byte up to the first address outside the array; the bytes before it are read.
read_buffer(at, count) ==
    FlattenSeq([k \in 1..count |->
                  IF at + k - 1 < OtpBytes THEN read_byte(at + k - 1) ELSE << <<"err", 0>> >>])

\* Variant: the voltage is left on.
write_byte_powered(a, value) ==
    << <<"magic", "write">>, <<"avdd", "rising">>, <<"delay", 0>>,
       <<"program", <<a, value>> >>, <<"delay", 0>> >>

write_byte(a, value) ==
    << <<"magic", "write">>, <<"avdd", "rising">>, <<"delay", 0>>,
       <<"program", <<a, value>> >>, <<"avdd", "falling">>, <<"delay", 0>> >>

EfCalls ==
    /\ efTodo = <<>>
    /\ \/ \E at \in Addresses, count \in 0..EfMaxRead :
            /\ efTodo' = read_buffer(at, count) /\ UNCHANGED efAsked
            /\ efCall' = [op |-> "read", at |-> at, count |-> count]
       \/ \E at \in Addresses, value \in SUBSET OtpBits :
            /\ efTodo' = write_byte(at, value)
            /\ efAsked' = [efAsked EXCEPT ![at] = @ \cup value]
            /\ efCall' = [op |-> "write"]
    /\ efBuffer' = <<>> /\ efResult' = "ok"
    /\ UNCHANGED <<efMode, efAvdd, efOtp>>

\* The data window holds the cells in read mode and anything else outside it; a write to
\* it burns bits only in write mode and at the full voltage.
EfAccess ==
    /\ efTodo # <<>>
    /\ LET op == Head(efTodo)[1]
           arg == Head(efTodo)[2]
           Word(a) == [lane \in 0..1 |-> IF efMode = "read" THEN efOtp[2 * word_index(a) + lane]
                                         ELSE OtpBits]
       IN /\ efTodo' = IF op = "err" THEN <<>> ELSE Tail(efTodo)
          /\ efResult' = IF op = "err" THEN "out of range" ELSE efResult
          /\ efMode' = IF op = "magic" THEN arg ELSE efMode
          /\ efAvdd' = CASE op = "avdd" -> arg
                         [] op = "delay" /\ efAvdd = "rising" -> "up"
                         [] op = "delay" /\ efAvdd = "falling" -> "down"
                         [] OTHER -> efAvdd
          /\ efBuffer' = IF op = "load" THEN Append(efBuffer, extract_byte(Word(arg), arg))
                         ELSE efBuffer
          /\ efOtp' = IF op = "program" /\ efMode = "write" /\ efAvdd = "up"
                      THEN [a \in Addresses |->
                              IF word_index(a) = word_index(arg[1])
                              THEN efOtp[a] \cup pack_byte(arg[2], arg[1])[a % 2]
                              ELSE efOtp[a]]
                      ELSE efOtp
    /\ UNCHANGED <<efCall, efAsked>>

EfNext == EfCalls \/ EfAccess

-----------------------------------------------------------------------------
(* Key slots. *)

\* Variant: the lock status is read for the slot selected before.
is_keyslot_locked_unselected(s) == << <<"status", s>> >>

is_keyslot_locked(s) == << <<"select", s>>, <<"status", s>> >>

KmCall(c) ==
    /\ kmTodo[c] = <<>>
    /\ c = "main" \/ KmShared \/ kmTodo["main"] = <<>>
    /\ \E s \in Keyslots : kmTodo' = [kmTodo EXCEPT ![c] = is_keyslot_locked(s)]
    /\ UNCHANGED <<kmSelected, kmLocked, kmAnswer>>

\* The handler runs to its end once it has begun.
KmAccess(c) ==
    /\ kmTodo[c] # <<>>
    /\ c = "main" => kmTodo["handler"] = <<>>
    /\ LET op == Head(kmTodo[c])
       IN /\ kmTodo' = [kmTodo EXCEPT ![c] = Tail(@)]
          /\ kmSelected' = IF op[1] = "select" THEN op[2] ELSE kmSelected
          /\ kmAnswer' = IF op[1] = "status"
                         THEN [kmAnswer EXCEPT ![c] = <<op[2], kmSelected \in kmLocked,
                                                        op[2] \in kmLocked>>]
                         ELSE kmAnswer
    /\ UNCHANGED kmLocked

\* lock_keyslot has a command register of its own; it takes &mut, so no call is under way.
lock_keyslot(s) ==
    /\ \A c \in Contexts : kmTodo[c] = <<>>
    /\ kmLocked' = kmLocked \cup {s}
    /\ UNCHANGED <<kmTodo, kmSelected, kmAnswer>>

KmNext ==
    \/ \E c \in Contexts : KmCall(c) \/ KmAccess(c)
    \/ \E s \in Keyslots : lock_keyslot(s)

EfuseNext ==
    \/ EfNext /\ UNCHANGED kmVars
    \/ KmNext /\ UNCHANGED efVars

EfuseSpec == EfInit /\ KmInit /\ [][EfuseNext]_<<efVars, kmVars>>

-----------------------------------------------------------------------------
(* Properties. *)

\* A read gives the cells of its addresses, whatever call came before, and stops with an
\* error exactly when it reaches the end of the array; the cells hold the bits the writes
\* were given and no other.  efuse.rs:135 "Arms read mode (`0x5A5A`), then loads the
\* latched word".
EfuseAsAsked ==
    efTodo = <<>> =>
        /\ efOtp = efAsked
        /\ efCall.op = "read" =>
             /\ efResult = "ok" <=> efCall.count = 0 \/ efCall.at + efCall.count <= OtpBytes
             /\ efResult = "ok" => Len(efBuffer) = efCall.count
             /\ \A k \in 1..Len(efBuffer) : efBuffer[k] = efOtp[efCall.at + k - 1]

\* The programming voltage is down whenever no write is under way.
VoltageDown == efTodo = <<>> \/ efCall.op = "read" => efAvdd = "down"

\* The answer about a slot is that slot's.  km.rs:36 "Check if a keyslot is locked".
LockAnswerOwn == \A c \in Contexts : kmAnswer[c] # <<>> => kmAnswer[c][2] = kmAnswer[c][3]

\* Cells, voltage and lock answers are those of the call that asked (efuse.rs:133-200,
\* km.rs:36-57).
EfuseSafe == EfuseAsAsked /\ VoltageDown /\ LockAnswerOwn
=============================================================================
