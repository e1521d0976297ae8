SPECIFICATION Spec
CONSTANTS
  TypeTexts <- MCTypeTexts
  Mappers <- MCMappers
  StubTexts <- MCStubTexts
  Sites <- MCSites
  StubTrees <- MCStubTrees
  Surfaces <- MCSurfaces
  NameOrder <- MCNameOrder
  Packages <- MCPackages
  UnifyInputs <- MCUnifyInputs
  Images <- MCImages
  CallInputs <- MCCallInputs
  RuleTypes <- MCRuleTypes
  Chains <- MCChains
  Branches <- MCBranches
  Programs <- MCPrograms
  ValueOf <- MCValueOf
  MochiNames <- MCMochiNames
  LogicInputs <- MCLogicInputs
  LogicNames <- MCLogicNames
  FunSets <- MCFunSets
  JobLists <- MCJobLists
  WalkRank <- MCWalkRank
  RefusedSources = {"bad"}
  WithExterns = {"ext"}
CHECK_DEADLOCK FALSE
INVARIANTS
  PackageComplete
  UnifierCorrect
  TypesAgree
  NarrowingSound
  EmittedModule
  SameOutput
  DatalogAnswers
  EffectsCoverCalls
  PyBuildCorrect
PROPERTIES EffectsClimb EffectsSettle
