--------------------------------- MODULE Gadc ---------------------------------
(***************************************************************************)
(* The BS2X general-purpose ADC (gadc.rs): power-up, the discarded first   *)
(* sample, and conversions whose done flag is polled with a bound.         *)
(***************************************************************************)
EXTENDS Integers, SequencesExt

CONSTANTS GadcInputs, \* stands for AIN0 to AIN7
          SignBit,    \* stands for 2 ^ 17
          GadcMaxConversions \* a bound

\* AIN0 to AIN7 are their bits' numbers, and there is room for the sign.
ASSUME GadcAssumption ==
    /\ GadcInputs \subseteq Nat
    /\ SignBit \in Nat \ {0} /\ GadcMaxConversions \in Nat

NoInput == -1

VARIABLES gdTodo,     \* the register accesses left of the call
          gdLive,     \* the driver exists
          gdFirst,    \* first_sample
          gdInput,    \* the input cfg_amux_1 selects
          gdAsked,    \* the input of the call
          gdAfe,      \* the supplies and clocks that are up
          gdCfg,      \* afe_gadc_cfg
          gdDone,     \* rpt_gadc_data_3
          gdRaw,      \* rpt_gadc_data_2
          gdOf,       \* the input it was taken from
          gdSettled,  \* a conversion has ended since power-up
          gdOld,      \* the result is the first since power-up
          gdResult, gdValue, gdFrom, gdFromOld, \* what the last call returned
          gdFaulty,   \* the board's analog supply is not up
          gdCount

gadcVars == <<gdTodo, gdLive, gdFirst, gdInput, gdAsked, gdAfe, gdCfg, gdDone, gdRaw,
              gdOf, gdSettled, gdOld, gdResult, gdValue, gdFrom, gdFromOld, gdFaulty,
              gdCount>>

gadcReport == <<gdDone, gdRaw, gdOf, gdSettled, gdOld, gdCount>>
gadcReturns == <<gdResult, gdValue, gdFrom, gdFromOld>>

\* An 18-bit sample, by its raw value.
sign_extend18(raw) == IF raw >= SignBit THEN raw - 2 * SignBit ELSE raw

\* Raw samples around the boundaries.
Raws == {0, SignBit - 1, SignBit, 2 * SignBit - 1}

Off == [en |-> FALSE, mux |-> FALSE, iso |-> FALSE]
Isolated == [en |-> FALSE, mux |-> FALSE, iso |-> TRUE]

\* new: isolation and power, the regulators, the resets, and the handshake.
\* Every regulator is enabled before the step that needs it.
PowerUp == <<"afe power", "afe clock", "afe regulator", "adc regulator",
             "reference", "resets released", "cfg mux iso", "cfg mux", "cfg mux en">>

AfeParts == {"afe power", "afe clock", "afe regulator", "adc regulator", "reference",
             "resets released"}

\* convert_once: trigger, poll, isolate whatever the poll said, then the result.
ConvertOnce == <<"cfg +mux", "cfg -iso", "cfg +en", "poll", "cfg -en", "cfg iso", "read">>

\* Variant: the first sample is returned.
ReadOpsAll(first) == <<"amux">> \o ConvertOnce

ReadOps(first) ==
    <<"amux">> \o (IF first THEN ConvertOnce \o <<"first done">> ELSE <<>>) \o ConvertOnce

GadcTypeOK ==
    /\ gdLive \in BOOLEAN /\ gdFirst \in BOOLEAN
    /\ gdInput \in GadcInputs \cup {NoInput} /\ gdAsked \in GadcInputs \cup {NoInput}
    /\ gdAfe \subseteq AfeParts
    /\ gdCfg \in [en : BOOLEAN, mux : BOOLEAN, iso : BOOLEAN]
    /\ gdDone \in BOOLEAN /\ gdRaw \in Raws /\ gdOf \in GadcInputs \cup {NoInput}
    /\ gdSettled \in BOOLEAN /\ gdOld \in BOOLEAN /\ gdFromOld \in BOOLEAN
    /\ gdResult \in {"none", "timeout", "ok"} /\ gdValue \in (-SignBit)..(SignBit - 1)
    /\ gdFrom \in GadcInputs \cup {NoInput}
    /\ gdFaulty \in BOOLEAN /\ gdCount \in 0..GadcMaxConversions

GadcInit ==
    /\ gdTodo = <<>> /\ gdLive = FALSE /\ gdFirst = TRUE
    /\ gdInput = NoInput /\ gdAsked = NoInput /\ gdAfe = {} /\ gdCfg = Off
    /\ gdDone = FALSE /\ gdRaw = 0 /\ gdOf = NoInput /\ gdSettled = FALSE /\ gdOld = TRUE
    /\ gdResult = "none" /\ gdValue = 0 /\ gdFrom = NoInput /\ gdFromOld = FALSE
    /\ gdFaulty \in BOOLEAN /\ gdCount = 0

-----------------------------------------------------------------------------
GadcNew ==
    /\ ~ gdLive
    /\ gdLive' = TRUE
    /\ gdTodo' = PowerUp
    /\ UNCHANGED <<gdFirst, gdInput, gdAsked, gdAfe, gdCfg, gadcReport, gadcReturns,
                   gdFaulty>>

GadcRead(input) ==
    /\ gdLive /\ gdTodo = <<>> /\ gdCount + 2 <= GadcMaxConversions
    /\ gdTodo' = ReadOps(gdFirst)
    /\ gdAsked' = input
    /\ gdResult' = "none" /\ gdValue' = 0 /\ gdFrom' = NoInput /\ gdFromOld' = FALSE
    /\ UNCHANGED <<gdLive, gdFirst, gdInput, gdAfe, gdCfg, gadcReport, gdFaulty>>

\* What an access does to afe_gadc_cfg.
CfgAfter(op) ==
    CASE op = "cfg mux iso" -> [en |-> FALSE, mux |-> TRUE, iso |-> TRUE]
      [] op = "cfg mux" -> [en |-> FALSE, mux |-> TRUE, iso |-> FALSE]
      [] op = "cfg mux en" -> [en |-> TRUE, mux |-> TRUE, iso |-> FALSE]
      [] op = "cfg +mux" -> [gdCfg EXCEPT !.mux = TRUE]
      [] op = "cfg -iso" -> [gdCfg EXCEPT !.iso = FALSE]
      [] op = "cfg +en" -> [gdCfg EXCEPT !.en = TRUE]
      [] op = "cfg -en" -> [gdCfg EXCEPT !.en = FALSE]
      [] op = "cfg iso" -> [gdCfg EXCEPT !.mux = FALSE, !.iso = TRUE]
      [] OTHER -> gdCfg

\* An access that is not the poll.  The second conversion's result is the call's.
GadcAccess ==
    /\ gdTodo # <<>> /\ Head(gdTodo) # "poll"
    /\ gdTodo' = Tail(gdTodo)
    /\ gdAfe' = gdAfe \cup ({Head(gdTodo)} \cap AfeParts)
    /\ gdCfg' = CfgAfter(Head(gdTodo))
    \* the hardware's, as the code assumes: a trigger takes the last conversion's flag down
    /\ gdDone' = (gdDone /\ Head(gdTodo) # "cfg +en")
    /\ gdInput' = IF Head(gdTodo) = "amux" THEN gdAsked ELSE gdInput
    /\ gdFirst' = (gdFirst /\ Head(gdTodo) # "first done")
    /\ IF Head(gdTodo) = "read" /\ Len(gdTodo) = 1
       THEN /\ gdResult' = "ok" /\ gdValue' = sign_extend18(gdRaw)
            /\ gdFrom' = gdOf /\ gdFromOld' = gdOld
       ELSE UNCHANGED gadcReturns
    /\ UNCHANGED <<gdLive, gdAsked, gdRaw, gdOf, gdSettled, gdOld, gdFaulty, gdCount>>

\* Variant: `?` on the poll.
GadcPollLeaves ==
    /\ gdTodo # <<>> /\ Head(gdTodo) = "poll"
    /\ \/ gdDone /\ gdTodo' = Tail(gdTodo) /\ UNCHANGED gdResult
       \/ ~ gdDone /\ gdTodo' = <<>> /\ gdResult' = "timeout"
    /\ UNCHANGED <<gdLive, gdFirst, gdInput, gdAsked, gdAfe, gdCfg, gadcReport, gdValue,
                   gdFrom, gdFromOld, gdFaulty>>

\* Variant: the poll has no bound.
GadcPollForever ==
    /\ gdTodo # <<>> /\ Head(gdTodo) = "poll" /\ gdDone
    /\ gdTodo' = Tail(gdTodo)
    /\ UNCHANGED <<gdLive, gdFirst, gdInput, gdAsked, gdAfe, gdCfg, gadcReport,
                   gadcReturns, gdFaulty>>

\* The bounded poll ends with the flag, or by its bound, on a front-end that is slow or
\* dead: the converter is isolated all the same, and the call returns the error.
GadcPoll ==
    /\ gdTodo # <<>> /\ Head(gdTodo) = "poll"
    /\ \/ gdDone /\ gdTodo' = Tail(gdTodo) /\ UNCHANGED gdResult
       \/ ~ gdDone /\ gdTodo' = <<"cfg -en", "cfg iso">> /\ gdResult' = "timeout"
    /\ UNCHANGED <<gdLive, gdFirst, gdInput, gdAsked, gdAfe, gdCfg, gadcReport, gdValue,
                   gdFrom, gdFromOld, gdFaulty>>

\* The converter: free-running while enabled and not isolated.
GadcConvert ==
    /\ gdCfg.en /\ gdCfg.mux /\ ~ gdCfg.iso /\ gdInput # NoInput
    /\ gdAfe = AfeParts /\ ~ gdFaulty /\ ~ gdDone
    /\ gdCount < GadcMaxConversions
    /\ gdDone' = TRUE
    /\ gdRaw' \in Raws
    /\ gdOf' = gdInput
    /\ gdOld' = ~ gdSettled /\ gdSettled' = TRUE
    /\ gdCount' = gdCount + 1
    /\ UNCHANGED <<gdTodo, gdLive, gdFirst, gdInput, gdAsked, gdAfe, gdCfg, gadcReturns,
                   gdFaulty>>

\* The supply comes up.
GadcSupply ==
    /\ gdFaulty /\ gdFaulty' = FALSE
    /\ UNCHANGED <<gdTodo, gdLive, gdFirst, gdInput, gdAsked, gdAfe, gdCfg, gadcReport,
                   gadcReturns>>

GadcNext ==
    \/ GadcNew \/ \E input \in GadcInputs : GadcRead(input)
    \/ GadcAccess \/ GadcPoll
    \/ GadcConvert \/ GadcSupply

GadcSpec == GadcInit /\ [][GadcNext]_gadcVars

GadcFairness == WF_gadcVars(GadcAccess \/ GadcPoll \/ GadcConvert)

-----------------------------------------------------------------------------
(* Properties. *)

\* A result was converted from the input asked for, and is never the first one
\* after power-up, also when earlier calls timed out.  gadc.rs:226 "The very first
\* sample after power-up is discarded".  It rests on the trigger's taking the done flag
\* of the last conversion down: no access of the driver does.
GadcAsAsked ==
    gdTodo = <<>> /\ gdResult = "ok" =>
        gdFrom = gdAsked /\ ~ gdFromOld

\* After every call the converter is isolated and stopped, whatever it returned.
\* gadc.rs:256-257 "always, even on timeout, so the AFE is left isolated rather than
\* free-running".
GadcIsolated == gdTodo = <<>> /\ gdResult # "none" => gdCfg = Isolated

\* Every call returns, with a live front-end or without.  gadc.rs:126-127 "then returns
\* GadcError::ConversionTimeout rather than hanging".
GadcReturns == gdTodo # <<>> ~> gdTodo = <<>>
=============================================================================
