----------------------------- MODULE MCAsyncMsg -----------------------------
(***************************************************************************)
(* Programs for AsyncMsg.  A program of "EveryCall" is one call of the     *)
(* library, with one of the combinations of its optional arguments, and    *)
(* PIOc_free_iosystem.                                                     *)
(***************************************************************************)
EXTENDS AsyncHistory

Options == [
    INQ |-> {"ndims", "nvars", "ngatts", "unlimdimid"},
    INQ_UNLIMDIMS |-> {"nunlimdims", "unlimdimids"},
    INQ_TYPE |-> {"name", "size"},
    INQ_FORMAT |-> {"format"},
    INQ_DIM |-> {"name", "len"},
    INQ_DIMID |-> {"id"},
    INQ_VAR |-> {"name", "xtype", "ndims", "dimids", "natts"},
    INQ_VARID |-> {"varid"},
    INQ_ATT |-> {"xtype", "len", "quiet"},
    INQ_ATTNAME |-> {"name"},
    INQ_ATTID |-> {"id"},
    RENAME_DIM |-> {}, RENAME_VAR |-> {}, RENAME_ATT |-> {}, DEL_ATT |-> {},
    SET_FILL |-> {"old_mode"},
    DEF_DIM |-> {"id"},
    DEF_VAR |-> {"unlimited", "invalid"},
    DEF_VAR_FILL |-> {"fill_value"},
    INQ_VAR_FILL |-> {"no_fill", "fill_value"},
    DEF_VAR_DEFLATE |-> {}, DEF_VAR_ZSTANDARD |-> {}, DEF_VAR_ENDIAN |-> {},
    DEF_VAR_QUANTIZE |-> {}, DEF_VAR_FILTER |-> {}, INQ_FILTER_AVAIL |-> {},
    DEF_VAR_SZIP |-> {}, DEF_VAR_BZIP2 |-> {}, INQ_VAR_BZIP2 |-> {"hasfilter", "level"},
    INQ_VAR_DEFLATE |-> {"shuffle", "deflate", "deflate_level"},
    DEF_VAR_CHUNKING |-> {"chunksizes"},
    INQ_VAR_CHUNKING |-> {"storage", "chunksizes"},
    INQ_VAR_ENDIAN |-> {"endian"},
    SET_CHUNK_CACHE |-> {}, SET_VAR_CHUNK_CACHE |-> {},
    GET_CHUNK_CACHE |-> {"size", "nelems", "preemption"},
    GET_VAR_CHUNK_CACHE |-> {"size", "nelems", "preemption"},
    INQ_VAR_FILTER_IDS |-> {"nfilters", "ids", "some"},
    INQ_VAR_FILTER_INFO |-> {"nparams", "params", "some"},
    INQ_VAR_ZSTANDARD |-> {"hasfilter", "level"},
    INQ_VAR_QUANTIZE |-> {"quantize_mode", "nsd"},
    PUT_ATT |-> {"long"}, GET_ATT |-> {"long"},
    GET_VARS |-> {"start", "count", "stride", "long"},
    PUT_VARS |-> {"start", "count", "stride", "long"},
    ADVANCEFRAME |-> {}, SETFRAME |-> {}, FREEDECOMP |-> {}, SETLOGLEVEL |-> {},
    SETERRORHANDLING |-> {"bcast", "old_method"},
    INITDECOMP_DOF |-> {"rearranger", "iostart", "iocount", "subset", "readonly"},
    CREATE_FILE |-> {"ncid"},
    OPEN_FILE |-> {"nvars"},
    DELETE_FILE |-> {}, ENDDEF |-> {}, REDEF |-> {},
    SYNC |-> {"writable"}, CLOSE_FILE |-> {"writable"},
    WRITEDARRAYMULTI |-> {"frame", "fillvalue", "several"},
    READDARRAY |-> {}]

Messages == DOMAIN Options
Exit     == Message("EXIT", {})

(* The facts that go together: a list is asked for with its length, an     *)
(* invalid dimension is an unlimited one, PIOc_create_file passes ncid.    *)
Sensible(msg, g) ==
    /\ {"ids"} \subseteq g => "nfilters" \in g
    /\ {"params"} \subseteq g => "nparams" \in g
    /\ {"invalid"} \subseteq g => "unlimited" \in g
    /\ msg = "CREATE_FILE" => "ncid" \in g

CallsWith(msgs) == UNION {{Message(m, g) : g \in {o \in SUBSET Options[m] : Sensible(m, o)}} : m \in msgs}

(* The calls that the two sides run differently, so that a program that    *)
(* makes them does not go on.                                              *)
Unmatched(call) ==
    \/ call.msg \in {"DEF_VAR_SZIP", "DEF_VAR_BZIP2", "INQ_VAR_BZIP2"}
    \/ call.msg = "DEF_DIM" /\ "id" \notin call.given
    \/ call.msg = "INQ_VARID" /\ "varid" \notin call.given
    \/ call.msg = "INITDECOMP_DOF" /\ "readonly" \in call.given /\ "subset" \notin call.given

Then(call) == <<call, Exit>>
EveryCall == <<{Then(k) : k \in {k \in CallsWith(Messages) : ~Unmatched(k)}}>>

(* Messages whose library call fails without its caller hearing of it. *)
Deaf       == {"SYNC", "SET_CHUNK_CACHE"}
(* Messages of inquiries that another function makes and checks. *)
NestedOnes == {"INQ_TYPE", "INQ_VAR", "INQ_UNLIMDIMS"}
Reported   == Messages \ Deaf
Direct     == Reported \ NestedOnes

ReportedOrDirect == [return |-> Reported, bcast |-> Direct]
AllReported      == [return |-> Reported, bcast |-> Reported]

-----------------------------------------------------------------------------
(* Two components that share the I/O tasks; the second syncs a file that   *)
(* is not writable, which nobody waits for.                                *)
Call0(msg) == Message(msg, {})
TwoPrograms == <<{<<Call0("ENDDEF"), Exit>>}, {<<Call0("SYNC"), Exit>>}>>

(* One component that changes the error handler between calls that may     *)
(* fail: a sequence of calls, a close that flushes a buffer of two         *)
(* variables and syncs first, a quiet inquiry.                             *)
Set(g) == Message("SETERRORHANDLING", g)
SettingPrograms ==
    <<{<<Set({"bcast"}), Call0("ENDDEF"), Set({}), Call0("REDEF"), Exit>>,
       <<Call0("ENDDEF"), Set({"bcast"}), Message("INQ_ATT", {"quiet"}), Exit>>,
       <<Message("WRITEDARRAYMULTI", {"frame", "several"}), Message("CLOSE_FILE", {"writable"}), Set({"bcast"}), Call0("READDARRAY"), Exit>>}>>

-----------------------------------------------------------------------------
(* The functions that make other calls: for each family the suffixes with  *)
(* a branch of their own, of a matrix and, where it matters, of a scalar.  *)
Branches == {"long", "ulonglong", "any"}
SuffixesOf(family) ==
    CASE family = "get_vars" -> Branches
      [] family \in {"get_att", "put_att", "put_vars"} -> {"long", "any"}
      [] family \in {"get_vara", "put_vara", "get_var", "put_var", "get_var1", "put_var1"} -> {"any"}
      [] family \in {"get_vard", "put_vard"} -> {"any", "othertype"}
FactsOf(family) ==
    CASE family \in {"get_var", "put_var"} -> {{}, {"scalar"}}
      [] family = "put_vard" -> {{}, {"filling"}, {"known"}}
      [] family \in {"get_var1", "put_var1"} -> {{"index"}}
      [] family \in {"get_vara", "put_vara"} -> {{"start", "count"}}
      [] OTHER -> {{}}
FamilyCalls ==
    <<{Then(Message(f, g \cup {s})) : <<f, g, s>> \in
          UNION {{f} \X FactsOf(f) \X SuffixesOf(f) : f \in Families}}>>

(* Every call, those functions, and those programs. *)
CallsAndSettings == <<EveryCall[1] \cup FamilyCalls[1] \cup SettingPrograms[1]>>

(* The programs of the runs are among those the theorems of AsyncMsgProofs *)
(* are about: the two sides of each call match.                            *)
ASSUME TheoremsApply == ProgramsFit /\ CodesHeard

=============================================================================
