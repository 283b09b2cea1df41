SPECIFICATION Spec
CONSTANTS
  Clients = {c1}
  Keys <- MCKeys
  Names <- MCNames
  NameOf <- MCNameOf
  Payloads = {"x"}
INVARIANT
  ReturnedIsSearchable
