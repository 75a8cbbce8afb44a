------------------------------ MODULE Startup ------------------------------
(***************************************************************************)
(* src/type4_main.cpp, main() from its first line to the start of the      *)
(* receiver thread: read and check the configuration, initialise the       *)
(* licence and the two modules of the recognition library, and undo what   *)
(* has been done when a step fails.  Afterwards FramePipeline takes over.  *)
(*                                                                         *)
(* The configuration is chosen when the program starts; every call of the  *)
(* library and every read of a file may succeed or fail.                   *)
(***************************************************************************)
EXTENDS Integers

CONSTANT Magnifications     \* the values of the magnify parameters tried

ASSUME MagnificationsAssumption == Magnifications \subseteq Int

\* What config.json holds, as far as main() looks at it.  zoom is the object
\* InputTensorToRawZoomInParam; x and y are its magnify fields.
Configs ==
    [root_is_null : BOOLEAN, lpd_path_is_string : BOOLEAN,
     model_path_is_string : BOOLEAN, has_mqtt_param : BOOLEAN,
     zoom : {"absent", "incomplete", "not_number", "numbers"},
     x : Magnifications, y : Magnifications,
     has_lpr_param_path : BOOLEAN]

Steps == {"read_config", "check_params", "zoom", "license", "lpd_init",
          "read_model", "lpr_init", "read_lpd_param", "lpd_set_param",
          "lpr_set_param", "start_receiver", "running", "exit"}

VARIABLES
    step,               \* what main() does next
    config,
    x_magnify,          \* the statics of the same names; 0 until they are set
    y_magnify,
    licensed,           \* TS_LPR_add_license has succeeded
    lpd,                \* the two modules of the library are initialised
    lpr,
    lpd_param_set,      \* TS_LPD_setParam has succeeded
    lpr_param_set       \* TS_LPR_setParam has succeeded

zoomvars == <<x_magnify, y_magnify>>
params   == <<lpd_param_set, lpr_param_set>>
library  == <<licensed, lpd, lpr, params>>
vars     == <<step, config, zoomvars, library>>

TypeOK ==
    /\ step \in Steps
    /\ config \in Configs
    /\ x_magnify \in Magnifications \cup {0}
    /\ y_magnify \in Magnifications \cup {0}
    /\ licensed \in BOOLEAN
    /\ lpd \in BOOLEAN /\ lpr \in BOOLEAN
    /\ lpd_param_set \in BOOLEAN
    /\ lpr_param_set \in {FALSE, config.has_lpr_param_path}

Init ==
    /\ step = "read_config"
    /\ config \in Configs
    /\ x_magnify = 0 /\ y_magnify = 0
    /\ licensed = FALSE
    /\ lpd = FALSE /\ lpr = FALSE
    /\ lpd_param_set = FALSE /\ lpr_param_set = FALSE

-----------------------------------------------------------------------------
\* main() goes on with the next step, or returns.
GoTo(s) == step' = s

\* Without a readable configuration that parses main() returns -1.
ReadConfig ==
    /\ step = "read_config"
    /\ GoTo("check_params") \/ GoTo("exit")
    /\ UNCHANGED <<config, zoomvars, library>>

CheckParams ==
    /\ ~config.root_is_null
    /\ config.lpd_path_is_string
    /\ config.model_path_is_string
    /\ config.has_mqtt_param

CheckConfig ==
    /\ step = "check_params"
    /\ IF CheckParams THEN GoTo("zoom") ELSE GoTo("exit")
    /\ UNCHANGED <<config, zoomvars, library>>

\* The operators named Faulty... are slips the properties below must catch;
\* no action uses them.

FaultyZoomUnchecked ==
    /\ step = "zoom"
    /\ config.zoom = "numbers"
    /\ x_magnify' = config.x
    /\ y_magnify' = config.y
    /\ GoTo("license")
    /\ UNCHANGED <<config, library>>

\* The parameters are stored before their sign is tested.
ZoomNumbers ==
    /\ step = "zoom"
    /\ config.zoom = "numbers"
    /\ x_magnify' = config.x
    /\ y_magnify' = config.y
    /\ IF config.x < 0 \/ config.y < 0 THEN GoTo("exit") ELSE GoTo("license")
    /\ UNCHANGED <<config, library>>

\* An object with a missing or ill-typed field ends main(); no object at all
\* leaves the magnifications 0.
ZoomOther ==
    /\ step = "zoom"
    /\ config.zoom # "numbers"
    /\ IF config.zoom = "absent" THEN GoTo("license") ELSE GoTo("exit")
    /\ UNCHANGED <<config, zoomvars, library>>

FaultyInitLicenseUnchecked ==
    /\ step = "license"
    /\ licensed' \in BOOLEAN
    /\ GoTo("lpd_init")
    /\ UNCHANGED <<config, zoomvars, lpd, lpr, params>>

\* InitLicense(): the file cannot be read, or the library refuses it, or not.
InitLicense ==
    /\ step = "license"
    /\ \/ licensed' = TRUE /\ GoTo("lpd_init")
       \/ UNCHANGED licensed /\ GoTo("exit")
    /\ UNCHANGED <<config, zoomvars, lpd, lpr, params>>

InitLPD ==
    /\ step = "lpd_init"
    /\ \/ lpd' = TRUE /\ GoTo("read_model")
       \/ UNCHANGED lpd /\ GoTo("exit")
    /\ UNCHANGED <<config, zoomvars, licensed, lpr, params>>

FaultyReadModelKeepsLPD ==
    /\ step = "read_model"
    /\ GoTo("lpr_init") \/ GoTo("exit")
    /\ UNCHANGED <<config, zoomvars, library>>

ReadModel ==
    /\ step = "read_model"
    /\ \/ UNCHANGED lpd /\ GoTo("lpr_init")
       \/ lpd' = FALSE /\ GoTo("exit")
    /\ UNCHANGED <<config, zoomvars, licensed, lpr, params>>

\* A failure releases the LPR module, which is not initialised, and not LPD.
InitLPR ==
    /\ step = "lpr_init"
    /\ \/ lpr' = TRUE /\ GoTo("read_lpd_param")
       \/ lpr' = FALSE /\ GoTo("exit")
    /\ UNCHANGED <<config, zoomvars, licensed, lpd, params>>

ReleaseModules == lpd' = FALSE /\ lpr' = FALSE

ReadLPDParam ==
    /\ step = "read_lpd_param"
    /\ \/ UNCHANGED <<lpd, lpr>> /\ GoTo("lpd_set_param")
       \/ ReleaseModules /\ GoTo("exit")
    /\ UNCHANGED <<config, zoomvars, licensed, params>>

SetLPDParam ==
    /\ step = "lpd_set_param"
    /\ \/ lpd_param_set' = TRUE /\ UNCHANGED <<lpd, lpr>> /\ GoTo("lpr_set_param")
       \/ ReleaseModules /\ UNCHANGED lpd_param_set /\ GoTo("exit")
    /\ UNCHANGED <<config, zoomvars, licensed, lpr_param_set>>

FaultySetLPRParamAlways ==
    /\ step = "lpr_set_param"
    /\ lpr_param_set' \in BOOLEAN
    /\ GoTo("start_receiver")
    /\ UNCHANGED <<config, zoomvars, licensed, lpd, lpr, lpd_param_set>>

\* Only when a path is given; the file may be missing or the call may fail,
\* main() goes on with the default parameters of the library.
SetLPRParam ==
    /\ step = "lpr_set_param"
    /\ lpr_param_set' \in {FALSE, config.has_lpr_param_path}
    /\ GoTo("start_receiver")
    /\ UNCHANGED <<config, zoomvars, licensed, lpd, lpr, lpd_param_set>>

\* std::thread recv_data_thread(ReceiveDataFromFile); the loop never ends.
StartReceiver ==
    /\ step = "start_receiver"
    /\ GoTo("running")
    /\ UNCHANGED <<config, zoomvars, library>>

Next ==
    \/ ReadConfig \/ CheckConfig \/ ZoomNumbers \/ ZoomOther
    \/ InitLicense \/ InitLPD \/ ReadModel \/ InitLPR \/ ReadLPDParam
    \/ SetLPDParam \/ SetLPRParam \/ StartReceiver

Spec == Init /\ [][Next]_vars

-----------------------------------------------------------------------------
(***************************************************************************)
(* The receiver thread starts only when the licence, both modules and the  *)
(* detector's parameters are there, and never with a negative              *)
(* magnification.  That 0 passes is MagnificationsPositive's affair.       *)
(***************************************************************************)
Started == step \in {"start_receiver", "running"}

ReadyBeforeFrames ==
    Started => /\ licensed /\ lpd /\ lpr /\ lpd_param_set
               /\ x_magnify >= 0 /\ y_magnify >= 0
               /\ CheckParams /\ config.zoom \in {"absent", "numbers"}

(***************************************************************************)
(* The magnifications that were given and tested are above 0 when the      *)
(* receiver thread starts, which multiplies every coordinate by them, as   *)
(* the message of the test says.  The code lets 0 pass.  (Without the      *)
(* object both stay 0 too, and no test is made.)                           *)
(***************************************************************************)
MagnificationsPositive ==
    Started /\ config.zoom = "numbers" => x_magnify > 0 /\ y_magnify > 0

(***************************************************************************)
(* main() releases the modules it has initialised before it returns,       *)
(* whichever step fails, with one exception that the code has: when        *)
(* TS_LPR_init fails the LPD module stays initialised.                     *)
(***************************************************************************)
ExitReleasesModules ==
    [][step' = "exit" /\ step # "lpr_init" => ~lpd' /\ ~lpr']_vars

(***************************************************************************)
(* No module of the library is initialised, or stays so, without a licence *)
(* (ts_lpr_perception.h, TS_LPR_add_license: before any other interface;   *)
(* setting the log level, which main() does earlier, is not modelled).     *)
(***************************************************************************)
LicenseFirst == lpd \/ lpr \/ lpd_param_set \/ lpr_param_set => licensed
=============================================================================
