------------------------------- MODULE Server -------------------------------
(***************************************************************************)
(* What server.rs makes of one request: an answer, a message to one of the *)
(* two services, or a panic of the connection's task, which closes the     *)
(* connection without an answer.  A request is a path and a body; a body   *)
(* that is not JSON has kind text, one that is not even UTF-8 kind binary. *)
(***************************************************************************)
EXTENDS ModCtrl

VariableRoutes == [set_scalar |-> "scalar", set_position |-> "position", set_color |-> "color",
                   set_rcolor |-> "rcolor", set_data |-> "data"]

Routes == {"set_config", "set_white_led"} \cup DOMAIN VariableRoutes

Number(obj, key, default) == IF Has(obj, key) THEN obj[key].num ELSE default

\* The fields the handler of a path takes without a panic.
FieldsFit(path, obj) ==
    CASE path = "set_config" -> TRUE
      [] path = "set_white_led" ->
            \A k \in {"temp", "value", "delay"} \cap DOMAIN obj : Is(obj[k], "num")
      [] OTHER -> /\ Has(obj, "index") /\ IsUsize(obj.index)
                  /\ Has(obj, "value") /\ Fits(VariableRoutes[path], obj.value)

\* A configuration is passed on unread.
Message(path, obj) ==
    CASE path = "set_config" -> Config(obj)
      [] path = "set_white_led" ->
            [temp |-> Number(obj, "temp", 2700 * ONE), value |-> Number(obj, "value", ONE),
             delay |-> Number(obj, "delay", 0)]
      [] OTHER -> LET kind == VariableRoutes[path]
                  IN  VarMsg(kind, AsUsize(obj.index), FromJson(kind, obj.value))

NotFound(req) == req.path \notin Routes
BadRequest(req) == ~NotFound(req) /\ ~Is(req.body, "binary") /\ ~Is(req.body, "obj")
Sends(req) == ~NotFound(req) /\ Is(req.body, "obj") /\ FieldsFit(req.path, req.body.obj)
Breaks(req) == ~NotFound(req) /\ ~BadRequest(req) /\ ~Sends(req)
============================================================================
