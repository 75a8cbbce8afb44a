--------------------------- MODULE StartupProofs ---------------------------
(* Proofs about Startup, for any magnifications and any configuration.     *)
EXTENDS Startup, TLAPS

(***************************************************************************)
(* Type correctness: the library's parameters for LPR are never set when   *)
(* the configuration names no file for them.                               *)
(***************************************************************************)
THEOREM TypeCorrect == Spec => []TypeOK
<1>1. Init => TypeOK
  BY DEF Init, TypeOK, Steps, Configs
<1>2. TypeOK /\ [Next]_vars => TypeOK'
  <2> SUFFICES ASSUME TypeOK, [Next]_vars PROVE TypeOK'
    OBVIOUS
  <2> USE DEF TypeOK, Steps, GoTo, zoomvars, params, library
  <2>1. CASE ReadConfig \/ CheckConfig \/ ZoomOther \/ StartReceiver
    BY <2>1 DEF ReadConfig, CheckConfig, ZoomOther, StartReceiver
  <2>2. CASE ZoomNumbers
    BY <2>2 DEF ZoomNumbers, Configs
  <2>3. CASE InitLicense \/ InitLPD \/ InitLPR
    BY <2>3 DEF InitLicense, InitLPD, InitLPR
  <2>4. CASE ReadModel \/ ReadLPDParam
    BY <2>4 DEF ReadModel, ReadLPDParam, ReleaseModules
  <2>5. CASE SetLPDParam \/ SetLPRParam
    BY <2>5 DEF SetLPDParam, SetLPRParam, ReleaseModules, Configs
  <2>6. CASE UNCHANGED vars
    BY <2>6 DEF vars
  <2>7. QED
    BY <2>1, <2>2, <2>3, <2>4, <2>5, <2>6 DEF Next
<1>3. QED
  BY <1>1, <1>2, PTL DEF Spec

-----------------------------------------------------------------------------
\* What main() has done before each of its steps: a step is reached only
\* through the success of those before it.
ConfigChecked ==
    step \in Steps \ {"read_config", "check_params", "exit"} => CheckParams

ZoomChecked ==
    step \in Steps \ {"read_config", "check_params", "zoom", "exit"} =>
        /\ config.zoom \in {"absent", "numbers"}
        /\ x_magnify >= 0 /\ y_magnify >= 0

Licensed ==
    step \in Steps \ {"read_config", "check_params", "zoom", "license", "exit"}
        => licensed

ModulesReady ==
    /\ step \in {"read_model", "lpr_init"} => lpd
    /\ step \in {"read_lpd_param", "lpd_set_param", "lpr_set_param",
                 "start_receiver", "running"} => lpd /\ lpr
    /\ step \in {"lpr_set_param", "start_receiver", "running"} => lpd_param_set

\* Until a step is reached nothing it sets up is there.
NothingYet ==
    /\ step \in {"read_config", "check_params", "zoom"} =>
          x_magnify = 0 /\ y_magnify = 0
    /\ step \in {"read_config", "check_params", "zoom", "license", "lpd_init"} =>
          ~lpd
    /\ step \in {"read_config", "check_params", "zoom", "license", "lpd_init",
                 "read_model", "lpr_init"} => ~lpr
    /\ ~licensed => ~lpd /\ ~lpr /\ ~lpd_param_set /\ ~lpr_param_set

IInv == ConfigChecked /\ ZoomChecked /\ Licensed /\ ModulesReady /\ NothingYet

LEMMA IInvInit == Init => IInv
BY DEF Init, IInv, ConfigChecked, ZoomChecked, Licensed, ModulesReady,
       NothingYet

LEMMA IInvStep == TypeOK /\ IInv /\ [Next]_vars => IInv'
<1> SUFFICES ASSUME TypeOK, IInv, [Next]_vars PROVE IInv'
  OBVIOUS
<1> USE DEF TypeOK, Steps, GoTo, zoomvars, params, library, IInv,
           ConfigChecked, ZoomChecked, Licensed, ModulesReady, NothingYet,
           CheckParams
<1>1. CASE ReadConfig \/ CheckConfig
  BY <1>1 DEF ReadConfig, CheckConfig
<1>2. CASE ZoomNumbers
  <2>1. x_magnify' \in Int /\ y_magnify' \in Int
    BY <1>2, MagnificationsAssumption DEF ZoomNumbers, Configs
  <2>2. step' = "license" => x_magnify' >= 0 /\ y_magnify' >= 0
    BY <1>2, <2>1 DEF ZoomNumbers
  <2>3. QED
    BY <1>2, <2>2 DEF ZoomNumbers
<1>3. CASE ZoomOther
  BY <1>3 DEF ZoomOther, Configs
<1>4. CASE InitLicense \/ InitLPD \/ InitLPR
  BY <1>4 DEF InitLicense, InitLPD, InitLPR
<1>5. CASE ReadModel \/ ReadLPDParam
  BY <1>5 DEF ReadModel, ReadLPDParam, ReleaseModules
<1>6. CASE SetLPDParam \/ SetLPRParam \/ StartReceiver
  BY <1>6 DEF SetLPDParam, SetLPRParam, StartReceiver, ReleaseModules
<1>7. CASE UNCHANGED vars
  BY <1>7 DEF vars
<1>8. QED
  BY <1>1, <1>2, <1>3, <1>4, <1>5, <1>6, <1>7 DEF Next

LEMMA IInvAlways == Spec => []IInv
BY IInvInit, IInvStep, TypeCorrect, PTL DEF Spec

(***************************************************************************)
(* The receiver thread starts only when the licence, both modules and the  *)
(* detector's parameters are there, and with no negative magnification.    *)
(***************************************************************************)
THEOREM ReceiverFindsAllReady == Spec => []ReadyBeforeFrames
<1>1. IInv => ReadyBeforeFrames
  BY DEF IInv, ConfigChecked, ZoomChecked, Licensed, ModulesReady, Steps,
     ReadyBeforeFrames, Started
<1>2. QED
  BY <1>1, IInvAlways, PTL

(***************************************************************************)
(* No module of the library is set up, or stays so, without a licence.     *)
(***************************************************************************)
THEOREM NothingUnlicensed == Spec => []LicenseFirst
<1>1. IInv => LicenseFirst
  BY DEF IInv, NothingYet, LicenseFirst
<1>2. QED
  BY <1>1, IInvAlways, PTL

(***************************************************************************)
(* Whichever step fails, except TS_LPR_init, main() leaves no module       *)
(* initialised when it returns.                                            *)
(***************************************************************************)
THEOREM ModulesReleasedOnExit == Spec => ExitReleasesModules
<1>1. IInv /\ [Next]_vars =>
        [step' = "exit" /\ step # "lpr_init" => ~lpd' /\ ~lpr']_vars
  <2> SUFFICES ASSUME IInv, Next, step' = "exit", step # "lpr_init"
               PROVE  ~lpd' /\ ~lpr'
    OBVIOUS
  <2> USE DEF IInv, NothingYet, GoTo, zoomvars, params, library
  <2>1. CASE ReadConfig \/ CheckConfig \/ ZoomNumbers \/ ZoomOther
    BY <2>1 DEF ReadConfig, CheckConfig, ZoomNumbers, ZoomOther
  <2>2. CASE InitLicense \/ InitLPD \/ InitLPR
    BY <2>2 DEF InitLicense, InitLPD, InitLPR
  <2>3. CASE ReadModel \/ ReadLPDParam \/ SetLPDParam
    BY <2>3 DEF ReadModel, ReadLPDParam, SetLPDParam, ReleaseModules
  <2>4. CASE SetLPRParam \/ StartReceiver
    BY <2>4 DEF SetLPRParam, StartReceiver
  <2>5. QED
    BY <2>1, <2>2, <2>3, <2>4 DEF Next
<1>2. QED
  BY <1>1, IInvAlways, PTL DEF Spec, ExitReleasesModules
=============================================================================
