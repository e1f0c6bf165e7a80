SPECIFICATION Spec
CONSTANTS
  Chars <- TheChars
  Letters <- TheLetters
  Dash = "-"
  LowerOf <- SmallOf
  Openbao <- TheOpenbao
  MaxLen = 8
  HashLen = 3
  NameLen = 3
  MaxBindings = 2
INVARIANTS BindingsNeverCollide
