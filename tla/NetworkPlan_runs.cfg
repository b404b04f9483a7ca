CONSTANTS
    onb = onb
    bond = bond
    dual0 = dual0
    dual1 = dual1
    left = left
    right = right
    virt = virt
    soc = soc
    m1 = m1
    m2 = m2
    m3 = m3
    m4 = m4
    m5 = m5
    m6 = m6
    m7 = m7
    sA = sA
    sB = sB
    sC = sC
    sD = sD
    sE = sE
    sF = sF
    host = host
    inst = inst
    conf = conf
    lab = lab
    corp = corp
    dns1 = dns1
    dns2 = dns2
    ntp1 = ntp1
    text = text
    NotPci = NotPci
    None = None
    Bad = Bad
    Blank = Blank
    Nics <- MCNics
    MacOf <- MCMacOf
    PathOf <- MCPathOf
    Acpi <- MCAcpi
    Index <- MCIndex
    Multifunction <- MCMultifunction
    Hotplug <- MCHotplug
    Inputs <- MCInputs
    Boots <- MCBoots
    MaxRuns = 2
SPECIFICATION Spec
INVARIANTS
    TypeOK
    OneAddressEach
    HangsTogether
    SaidOnce
    NamesAreNics
CHECK_DEADLOCK FALSE
