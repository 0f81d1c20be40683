----------------------------- MODULE RequestParse -----------------------------
(***************************************************************************)
(* rpc_parse_request and the input schemas of tools/list (rpc.cpp).        *)
(*                                                                         *)
(* A request is abstracted to what the parser looks at: whether the line   *)
(* is JSON and an object, its id, its method, the tool it names and, for   *)
(* each argument the tool knows, the class of its value.  A class is a set *)
(* of JSON values no check of the parser tells apart:                      *)
(*   "absent"                                                              *)
(*   "listed", "text", "empty"      strings: a member of the field's enum, *)
(*                                  another non-empty one, ""              *)
(*   "fit", "zero", "neg", "huge"   integers: inside every range checked,  *)
(*                                  0, below 0, and beyond 32 bits with    *)
(*                                  low bits that are "fit"                *)
(*   "frac"                         a fraction between two "fit" integers  *)
(*   "bool"                                                                *)
(*   "pairs", "holes"               arrays of edits: all well formed, or   *)
(*                                  one without oldText or newText         *)
(*   "other"                        null or an object                      *)
(***************************************************************************)
EXTENDS Naturals

Strings == {"listed", "text", "empty"}
Integer == {"fit", "zero", "neg", "huge"}
Number == Integer \cup {"frac"}
Classes == Strings \cup Number \cup {"absent", "bool", "pairs", "holes", "other"}

(* get<int>() narrows a wide integer and truncates a fraction before the   *)
(* range is tested; get<long long>() does not.                             *)
GetInt(v) == IF v \in {"huge", "frac"} THEN "fit" ELSE v

(* A field with the classes the parser lets through: the schema's          *)
(* "required" becomes the absence of "absent".                             *)
Req(ok) == ok
Opt(ok) == ok \cup {"absent"}

(* parse_terminal_read_opts: shared by the three tools that read.          *)
ReadOpts ==
    [wait_ms  |-> Opt({"fit", "zero"}),
     wait_for |-> Opt({"listed"}),
     cursor   |-> Opt({"fit", "zero", "huge"})]

(* What each tool's branch lets through.  Positive integers are tested     *)
(* after get<int>(); a non-string encoding is skipped, not refused.        *)
BashArgs == [command |-> Req(Strings), timeout |-> Opt(Number \ {"neg"})]
ReadArgs == [path   |-> Req(Strings \ {"empty"}),
              offset |-> Opt({v \in Integer : GetInt(v) = "fit"}),
              limit  |-> Opt({v \in Integer : GetInt(v) = "fit"})]
WriteArgs == [path |-> Req(Strings \ {"empty"}), content |-> Req(Strings),
              encoding |-> Classes \ {"text", "empty"}]
(* A mutant of the next one: the elements of edits are not looked at.      *)
EditArgsUnchecked == [path |-> Req(Strings \ {"empty"}), edits |-> Req({"pairs", "holes"})]
EditArgs == [path |-> Req(Strings \ {"empty"}), edits |-> Req({"pairs"})]
ImageArgs == [path |-> Req(Strings \ {"empty"}), detail |-> Opt({"listed"})]
RunArgs == [command  |-> Req(Strings),
              cols     |-> Opt({v \in Number : GetInt(v) = "fit"}),
              rows     |-> Opt({v \in Number : GetInt(v) = "fit"}),
              wait_ms  |-> ReadOpts.wait_ms,
              wait_for |-> ReadOpts.wait_for,
              cursor   |-> ReadOpts.cursor]
SendArgs == [id |-> Req(Strings), signal |-> Opt(Strings),
              command  |-> Opt(Strings), capture_status |-> Opt({"bool"}),
              wait_ms  |-> ReadOpts.wait_ms,
              wait_for |-> ReadOpts.wait_for,
              cursor   |-> ReadOpts.cursor]
OutputArgs == [id |-> Req(Strings),
               wait_ms  |-> ReadOpts.wait_ms,
               wait_for |-> ReadOpts.wait_for,
               cursor   |-> ReadOpts.cursor]
KillArgs == [id |-> Req(Strings)]
ListArgs == [include_exited |-> Opt({"bool"})]

Checks ==
    [bash |-> BashArgs, read |-> ReadArgs, write |-> WriteArgs, edit |-> EditArgs,
     view_image |-> ImageArgs, run_in_terminal |-> RunArgs,
     send_to_terminal |-> SendArgs, get_terminal_output |-> OutputArgs,
     kill_terminal |-> KillArgs, list_terminals |-> ListArgs]

Tools == DOMAIN Checks

(* The tools whose bad arguments are tool errors (arg_error) and not       *)
(* protocol errors.                                                        *)
ArgErrorTools ==
    {"run_in_terminal", "send_to_terminal", "get_terminal_output",
     "kill_terminal", "list_terminals"}

(* A send needs something to write or a signal to deliver.                 *)
SendHasWork(args) ==
    args.command # "absent" \/ args.signal \in Strings \ {"empty"}

ArgsPass(tool, args) ==
    /\ \A f \in DOMAIN Checks[tool] : args[f] \in Checks[tool][f]
    /\ tool = "send_to_terminal" => SendHasWork(args)

(* The id a reply carries: the request's, once it was seen to be an        *)
(* object; null before that and when it has none.                          *)
IdOf(j) == IF j.root = "object" /\ j.hasId THEN "own" ELSE "null"

ParseCall(j) ==
    CASE j.name \notin Tools -> "refused"
      [] j.name \in Tools /\ ArgsPass(j.name, j.args) ->
             IF j.name = "bash" THEN "cmd" ELSE "tool"
      [] OTHER -> IF j.name \in ArgErrorTools THEN "arg_error" ELSE "refused"

(* rpc_parse_request: "refused" is a protocol error answered at once.      *)
rpc_parse_request(j) ==
    IF j.root # "object" THEN "refused"
    ELSE CASE j.method \in {"initialize", "tools/list"} -> "protocol"
           [] j.method = "notifications/cancelled" -> "cancel"
           [] j.method = "notifications/other" -> "notification"
           [] j.method = "tools/call" -> ParseCall(j)
           [] OTHER -> "refused"

(* What the tools/list schemas admit, field by field: required, type, enum *)
(* and minLength.  Any property the schema does not name is admitted.      *)
WaitSchema == [wait_ms |-> Opt(Number), wait_for |-> Opt({"listed"}), cursor |-> Classes]
Schema ==
    [bash |-> [command |-> Req(Strings), timeout |-> Opt(Number)],
     read |-> [path |-> Req(Strings \ {"empty"}), offset |-> Opt(Number),
               limit |-> Opt(Number)],
     write |-> [path |-> Req(Strings \ {"empty"}), content |-> Req(Strings),
                encoding |-> Opt({"listed"})],
     edit |-> [path |-> Req(Strings \ {"empty"}), edits |-> Req({"pairs"})],
     view_image |-> [path |-> Req(Strings \ {"empty"}), detail |-> Opt({"listed"})],
     run_in_terminal |->
         [command |-> Req(Strings), cols |-> Opt(Number), rows |-> Opt(Number),
          wait_ms |-> WaitSchema.wait_ms, wait_for |-> WaitSchema.wait_for,
          cursor |-> WaitSchema.cursor],
     send_to_terminal |->
         [id |-> Req(Strings), command |-> Opt(Strings), signal |-> Opt({"listed"}),
          capture_status |-> Opt({"bool"}),
          wait_ms |-> WaitSchema.wait_ms, wait_for |-> WaitSchema.wait_for,
          cursor |-> WaitSchema.cursor],
     get_terminal_output |->
         [id |-> Req(Strings), wait_ms |-> WaitSchema.wait_ms,
          wait_for |-> WaitSchema.wait_for, cursor |-> Opt(Number)],
     kill_terminal |-> [id |-> Req(Strings)],
     list_terminals |-> [include_exited |-> Opt({"bool"})]]

SchemaPass(tool, args) == \A f \in DOMAIN Schema[tool] : args[f] \in Schema[tool][f]

(* Where the parser is laxer than the published schema.                    *)
Laxer(tool, args) ==
    \/ tool = "write" /\ args.encoding \notin Strings \cup {"absent"}
    \/ tool = "send_to_terminal" /\ args.signal \in {"text", "empty"}

(* Where it is stricter: numbers out of range or not whole, a cursor it    *)
(* reads though the schema does not name it, a send with nothing to do.    *)
Stricter(tool, args) ==
    \/ \E f \in DOMAIN args \cap {"timeout", "offset", "limit", "cols", "rows", "wait_ms"} :
           args[f] \in {"zero", "neg", "huge", "frac"}
    \/ "cursor" \in DOMAIN args /\ args.cursor \notin {"absent", "fit", "zero", "huge"}
    \/ tool = "send_to_terminal" /\ ~SendHasWork(args)

(* The parser accepts a call exactly when its arguments satisfy the schema *)
(* tools/list publishes, apart from the differences above.                 *)
AgreesWithSchema(tool, args) ==
    /\ ArgsPass(tool, args) => SchemaPass(tool, args) \/ Laxer(tool, args)
    /\ SchemaPass(tool, args) => ArgsPass(tool, args) \/ Stricter(tool, args)

=============================================================================
