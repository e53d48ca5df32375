------------------------------ MODULE Registry ------------------------------
(* registry.go: the classes Default() puts into a registry, but for Groups,    *)
(* whose data New writes: ParserConfig models it.                              *)
EXTENDS Arrays, Strings, Countries

Methods ==
  {"Arrays"} \X (DOMAIN Arity \cup {"flatten", "none"})
  \cup {"String"} \X (DOMAIN StringArity \cup {"join", "stringSwitch", "none"})
  \cup {"Convert"} \X {"toInt", "toNum", "none"}
  \cup {"Iso3166Convert"} \X (IsoMethods \cup {"none"})

(* Class.Call of the class the registry has under that name.                   *)
CallOf(class, method, args) ==
  CASE class = "Arrays" -> ArraysCall(method, args)
    [] class = "String" -> StringCall(method, args)
    [] class = "Convert" -> ConvertCall(method, args)
    [] class = "Iso3166Convert" -> IsoCall(method, args)
=============================================================================
