SPECIFICATION MCTokenSpec
CONSTANTS
  r0 = r0  r9 = r9  e = e
  s1 = s1  s2 = s2  s3 = s3  s4 = s4  s5 = s5  s6 = s6  s7 = s7  s8 = s8  s9 = s9
  d0 = d0  d1 = d1  d2 = d2
  p256 = p256  short = short  forged = forged
  Key <- MCKey
  IsSig <- MCIsSig
  Secret <- MCSecret
  OtherKey <- MCOtherKey
  Word = 15
  MaxBlocks = 3
  Verifies <- MCVerifies
  PublicOf <- MCPublicOf
  Sign <- MCSign
  Inputs <- MCInputs
  Roots <- MCRoots
INVARIANTS ParseInv ChainInv AcceptsExactlyTheMade ReadsWhatIsWritten
