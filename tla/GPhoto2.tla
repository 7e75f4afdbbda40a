------------------------------- MODULE GPhoto2 -------------------------------
(***************************************************************************)
(* What flyphoto_gphoto2_bridge.cpp relies on of libgphoto2, as the        *)
(* library's headers in include/gphoto2/ declare it: the result codes, the *)
(* kinds of object a caller owns, the events and the data they carry, and  *)
(* the types of configuration values.  The library itself is a prebuilt    *)
(* binary; how a call may end is chosen by the modules that make it.       *)
(***************************************************************************)
EXTENDS Integers

-----------------------------------------------------------------------------
(* Result codes                                                            *)

GP_OK == 0
GP_ERROR == -1

\* Codes of the port library: generic, I/O, USB, lock and HAL errors.
PortErrors == (-8 .. GP_ERROR) \cup {-10, -20, -21, -31, -34, -35, -37, -41}
              \cup (-53 .. -51) \cup {-60, -70}

\* Codes of the camera library: data, model, folder, file and device errors.
CameraErrors == {-102, -103, -105} \cup (-115 .. -107)

Errors == PortErrors \cup CameraErrors
Results == Errors \cup {GP_OK}

\* "every error is negative (lower)"; lookups and counts answer an index.
Failed(result) == result < GP_OK

-----------------------------------------------------------------------------
(* Objects a caller creates and has to give back                           *)

AbilitiesApi == {"abilities"}      \* gp_abilities_list_new, _free
PortInfoApi == {"ports"}           \* gp_port_info_list_new, _free
ListApi == {"list"}                \* gp_list_new, _unref
CameraApi == {"camera"}            \* gp_camera_new, _unref
ContextApi == {"context"}          \* gp_context_new, _unref
WidgetApi == {"widget"}            \* gp_camera_get_config, gp_widget_free
FileApi == {"file", "fd"}          \* gp_file_new_from_fd, gp_file_unref
LogApi == {"logfunc"}              \* gp_log_add_func, gp_log_remove_func
EventApi == {"event"}              \* data of gp_camera_wait_for_event

Kinds == AbilitiesApi \cup PortInfoApi \cup ListApi \cup CameraApi
         \cup ContextApi \cup WidgetApi \cup FileApi \cup LogApi \cup EventApi

\* The numbers of live objects after some kinds were created, and others freed.
After(live, created, freed) ==
    [k \in Kinds |-> live[k] + (IF k \in created THEN 1 ELSE 0)
                             - (IF k \in freed THEN 1 ELSE 0)]

-----------------------------------------------------------------------------
(* Events                                                                  *)

CameraEventType == {"GP_EVENT_UNKNOWN", "GP_EVENT_TIMEOUT",
    "GP_EVENT_FILE_ADDED", "GP_EVENT_FOLDER_ADDED",
    "GP_EVENT_CAPTURE_COMPLETE", "GP_EVENT_FILE_CHANGED"}

\* The argument of an event: a CameraFilePath, a char* or NULL, or nothing.
EventData(type) ==
    CASE type \in {"GP_EVENT_FILE_ADDED", "GP_EVENT_FOLDER_ADDED",
                   "GP_EVENT_FILE_CHANGED"} -> {"path"}
      [] type = "GP_EVENT_UNKNOWN" -> {"text", "null"}
      [] OTHER -> {"null"}

-----------------------------------------------------------------------------
(* Configuration widgets                                                   *)

CameraWidgetType == {"WINDOW", "SECTION", "TEXT", "RANGE", "TOGGLE", "RADIO",
                     "MENU", "BUTTON", "DATE"}

\* The C type gp_widget_get_value writes through its void pointer.
WidgetValue(type) ==
    CASE type \in {"TEXT", "RADIO", "MENU"} -> "char *"
      [] type = "RANGE" -> "float"
      [] type \in {"TOGGLE", "DATE"} -> "int"
      [] type = "BUTTON" -> "CameraWidgetCallback"
      [] OTHER -> "none"
=============================================================================
