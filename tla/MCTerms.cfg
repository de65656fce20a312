CONSTANTS
  toll = toll
  fuel = fuel
  plain = plain
  vague = vague
  toll_name = toll_name
  fuel_name = fuel_name
  toll_program = toll_program
  r1 = r1
  r2 = r2
  NoProgram = NoProgram
  NoValue = NoRow
  Lines = {toll, fuel}
  WholeDollar = {toll}
  Texts = {plain, vague}
  Doubtful = {vague}
  Names = {toll_name, fuel_name}
  NameOn <- NamesRead
  Programs = {toll_program}
  Resolved <- Catalog
  Requests = {r1, r2}
  Shifts <- TermShifts
  Corrections <- OneCorrection
  MaxQueued = 1
SPECIFICATION Spec
INVARIANTS
  TypeOK
  TermsInForceAreTheLatestReading
  CoverageFollowsTerms
  ReviewFlagsAgree
PROPERTIES
  ReadingApprovesNothing
  LostApprovalsAreShown
