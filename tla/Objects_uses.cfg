SPECIFICATION MCSpec
CONSTANTS
  v1 = v1  v2 = v2  o1 = o1  o2 = o2  id = id  name = name
  Uses <- MCUses
  Objects <- MCObjects
  First = o1
  Indeterminate = Indeterminate
  Texts <- MCTexts
  Values <- MCValues
  Templates <- MCTemplates
  Parameters <- MCParameters
  Urls <- MCUrls
  MaxCalls = 2
INVARIANTS NeverBroken YieldsFibonacci NamesGetTheirText
PROPERTIES ImplementsStream BodyOnlyOnSuccess UrlServesOneText
CHECK_DEADLOCK FALSE
