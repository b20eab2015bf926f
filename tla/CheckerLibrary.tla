--------------------------- MODULE CheckerLibrary ---------------------------
(***************************************************************************)
(* Declarations the checker knows calls by (checker/standard_library.cc,    *)
(* checker/optional.cc), for the kinds of values CelValues has; overloads   *)
(* of other kinds differ from these in nothing but their types.             *)
(***************************************************************************)
EXTENDS TypeInference

TypeParamA == TypeParam("A")
TypeParamB == TypeParam("B")
ListOfA == ListType(TypeParamA)
MapOfAB == MapType(TypeParamA, TypeParamB)
TypeOfA == TypeType(TypeParamA)
OptionalOfV == OptionalType(TypeParam("V"))
ListOfV == ListType(TypeParam("V"))
MapOfKV == MapType(TypeParam("K"), TypeParam("V"))

MakeOverloadDecl(id, result, args) ==
  [id |-> id, member |-> FALSE, args |-> args, result |-> result]
MakeMemberOverloadDecl(id, result, args) ==
  [id |-> id, member |-> TRUE, args |-> args, result |-> result]

\* Keyed by the segments of the function's name.
FunctionDecl(name, segments, overloads) ==
  segments :> [name |-> name, overloads |-> overloads]
Operator(name, overloads) == FunctionDecl(name, <<name>>, overloads)

AddArithmeticOps ==
  Operator("_+_", <<MakeOverloadDecl("add_int64", IntType, <<IntType, IntType>>),
                    MakeOverloadDecl("add_list", ListOfA, <<ListOfA, ListOfA>>)>>)

AddLogicalOps ==
  Operator("!_", <<MakeOverloadDecl("logical_not", BoolType, <<BoolType>>)>>)
  @@ Operator("_&&_", <<MakeOverloadDecl("logical_and", BoolType, <<BoolType, BoolType>>)>>)
  @@ Operator("_||_", <<MakeOverloadDecl("logical_or", BoolType, <<BoolType, BoolType>>)>>)
  @@ Operator("_?_:_", <<MakeOverloadDecl("conditional", TypeParamA,
                                          <<BoolType, TypeParamA, TypeParamA>>)>>)
  @@ Operator("@not_strictly_false",
              <<MakeOverloadDecl("not_strictly_false", BoolType, <<BoolType>>)>>)

AddTypeConversions ==
  Operator("dyn", <<MakeOverloadDecl("to_dyn", DynType, <<TypeParamA>>)>>)
  @@ Operator("type", <<MakeOverloadDecl("type", TypeOfA, <<TypeParamA>>)>>)

AddEqualityOps ==
  Operator("_==_", <<MakeOverloadDecl("equals", BoolType, <<TypeParamA, TypeParamA>>)>>)
  @@ Operator("_!=_", <<MakeOverloadDecl("not_equals", BoolType, <<TypeParamA, TypeParamA>>)>>)

\* The optional library merges its overloads into the index operator.
IndexOverloads ==
  <<MakeOverloadDecl("index_list", TypeParamA, <<ListOfA, IntType>>),
    MakeOverloadDecl("index_map", TypeParamB, <<MapOfAB, TypeParamA>>),
    MakeOverloadDecl("optional_list_index_int", OptionalOfV, <<OptionalType(ListOfV), IntType>>),
    MakeOverloadDecl("optional_map_index_value", OptionalOfV,
                     <<OptionalType(MapOfKV), TypeParam("K")>>)>>

AddContainerOps ==
  Operator("_[_]", IndexOverloads)
  @@ Operator("@in", <<MakeOverloadDecl("in_list", BoolType, <<TypeParamA, ListOfA>>),
                       MakeOverloadDecl("in_map", BoolType, <<TypeParamA, MapOfAB>>)>>)
  @@ Operator("size", <<MakeOverloadDecl("size_list", IntType, <<ListOfA>>),
                        MakeMemberOverloadDecl("list_size", IntType, <<ListOfA>>),
                        MakeOverloadDecl("size_map", IntType, <<MapOfAB>>),
                        MakeMemberOverloadDecl("map_size", IntType, <<MapOfAB>>)>>)

RegisterOptionalDecls ==
  FunctionDecl("optional.of", <<"optional", "of">>,
               <<MakeOverloadDecl("optional_of", OptionalOfV, <<TypeParam("V")>>)>>)
  @@ FunctionDecl("optional.none", <<"optional", "none">>,
                  <<MakeOverloadDecl("optional_none", OptionalOfV, <<>>)>>)
  @@ Operator("orValue", <<MakeMemberOverloadDecl("optional_orValue_value", TypeParam("V"),
                                                  <<OptionalOfV, TypeParam("V")>>)>>)
  @@ Operator("or", <<MakeMemberOverloadDecl("optional_or_optional", OptionalOfV,
                                             <<OptionalOfV, OptionalOfV>>)>>)
  @@ Operator("_?._", <<MakeOverloadDecl("select_optional_field", OptionalOfV,
                                         <<DynType, Simple("string")>>)>>)

\* cel.@block takes the list of its bindings as dyn, whatever they are.
BlockDecl ==
  FunctionDecl("cel.@block", <<"cel", "@block">>,
               <<MakeOverloadDecl("cel_block_list", TypeParam("T"),
                                  <<ListType(DynType), TypeParam("T")>>)>>)

AddStandardLibraryDecls ==
  AddArithmeticOps @@ AddLogicalOps @@ AddTypeConversions @@ AddEqualityOps
  @@ AddContainerOps @@ RegisterOptionalDecls @@ BlockDecl
=============================================================================
